---- MODULE Spec2Model ----
(***************************************************************************)
(* A model of portfolio_chat_agent.py: the PortfolioChatAgent turn handler *)
(* (chat and the four handlers it dispatches to), the textual transforms   *)
(* it applies to questions and SQL, and the server endpoints that drive    *)
(* the single module-level agent.                                          *)
(*                                                                         *)
(* Text is a sequence of one-character strings, so that substring tests,   *)
(* str.replace, str.strip and the regular expressions of the source are    *)
(* computed character by character.  An optional value (Python None or a   *)
(* value) is a set with at most one element.                               *)
(***************************************************************************)
EXTENDS Integers, Sequences, FiniteSets, TLC

----------------------------------------------------------------------------
(* Bounds of the model *)

\* the number of user turns explored between two resets
MaxTurns == 3

\* the number of pieces a text given to the cleaning step is made of
MaxPieces == 3

----------------------------------------------------------------------------
(* Characters and text primitives (Python str methods and re) *)

None == {}
Some(x) == {x}
The(opt) == CHOOSE x \in opt : TRUE

UpperLetters ==
  <<"A","B","C","D","E","F","G","H","I","J","K","L","M",
    "N","O","P","Q","R","S","T","U","V","W","X","Y","Z">>
LowerLetters ==
  <<"a","b","c","d","e","f","g","h","i","j","k","l","m",
    "n","o","p","q","r","s","t","u","v","w","x","y","z">>
Digits == <<"0","1","2","3","4","5","6","7","8","9">>

IsUpper(c) == \E i \in 1..26 : UpperLetters[i] = c
IsLower(c) == \E i \in 1..26 : LowerLetters[i] = c
IsDigit(c) == \E i \in 1..10 : Digits[i] = c
\* \s of re, restricted to the ASCII white space the model's texts contain
IsSpace(c) == c \in {" ", "\n", "\t", "\r"}
\* \w of re: what \b separates from the rest
IsWordChar(c) == IsUpper(c) \/ IsLower(c) \/ IsDigit(c) \/ c = "_"

LowerChar(c) ==
  IF IsUpper(c) THEN LowerLetters[CHOOSE i \in 1..26 : UpperLetters[i] = c] ELSE c
UpperChar(c) ==
  IF IsLower(c) THEN UpperLetters[CHOOSE i \in 1..26 : LowerLetters[i] = c] ELSE c

\* str.lower and str.upper
Lower(s) == [i \in 1..Len(s) |-> LowerChar(s[i])]
Upper(s) == [i \in 1..Len(s) |-> UpperChar(s[i])]

\* s[i:] with a 0-based i
From(s, i) == SubSeq(s, i + 1, Len(s))

\* s.startswith(sub)
StartsWith(s, sub) == Len(sub) <= Len(s) /\ SubSeq(s, 1, Len(sub)) = sub

\* sub in s
Contains(s, sub) == \E i \in 0..(Len(s) - Len(sub)) : SubSeq(s, i + 1, i + Len(sub)) = sub

\* any(k in s for k in keywords), keywords a sequence of texts
ContainsAny(s, keywords) == \E k \in 1..Len(keywords) : Contains(s, keywords[k])

\* str.strip(): leading and trailing white space removed
Strip(s) ==
  LET keep == {i \in 1..Len(s) : ~IsSpace(s[i])}
  IN  IF keep = {} THEN <<>>
      ELSE SubSeq(s, CHOOSE i \in keep : \A j \in keep : i <= j,
                     CHOOSE i \in keep : \A j \in keep : j <= i)

\* str.strip(ch): every leading and trailing ch removed
StripChar(s, ch) ==
  LET keep == {i \in 1..Len(s) : s[i] # ch}
  IN  IF keep = {} THEN <<>>
      ELSE SubSeq(s, CHOOSE i \in keep : \A j \in keep : i <= j,
                     CHOOSE i \in keep : \A j \in keep : j <= i)

\* str.replace(old, new): the non-overlapping occurrences of old, left to right
RECURSIVE Replace(_, _, _)
Replace(s, old, new) ==
  LET at == {i \in 0..(Len(s) - Len(old)) : StartsWith(From(s, i), old)}
  IN  IF at = {} THEN s
      ELSE LET first == CHOOSE i \in at : \A j \in at : i <= j
           IN  SubSeq(s, 1, first) \o new \o Replace(From(s, first + Len(old)), old, new)

\* s.split(ch)[0]: the text before the first ch
BeforeFirst(s, ch) ==
  LET at == {i \in 1..Len(s) : s[i] = ch}
  IN  IF at = {} THEN s ELSE SubSeq(s, 1, (CHOOSE i \in at : \A j \in at : i <= j) - 1)

\* len(s.split()): the number of white-space separated tokens
TokenCount(s) ==
  Cardinality({i \in 1..Len(s) : ~IsSpace(s[i]) /\ (i = 1 \/ IsSpace(s[i - 1]))})

\* how many characters from the 1-based position i on are white space, or digits
RECURSIVE SpaceRun(_, _)
SpaceRun(s, i) == IF i <= Len(s) /\ IsSpace(s[i]) THEN 1 + SpaceRun(s, i + 1) ELSE 0
RECURSIVE DigitRun(_, _)
DigitRun(s, i) == IF i <= Len(s) /\ IsDigit(s[i]) THEN 1 + DigitRun(s, i + 1) ELSE 0

\* re.search(r'\bword\b', s) for a word that starts and ends with a word character
SearchWord(s, word) ==
  \E i \in 0..(Len(s) - Len(word)) :
     /\ SubSeq(s, i + 1, i + Len(word)) = word
     /\ (i = 0 \/ ~IsWordChar(s[i]))
     /\ (i + Len(word) = Len(s) \/ ~IsWordChar(s[i + Len(word) + 1]))

\* re.findall(r'\d+', s)[0]: the first run of digits of s, None when s has no digit
FirstNumber(s) ==
  LET at == {i \in 1..Len(s) : IsDigit(s[i])}
  IN  IF at = {} THEN None
      ELSE LET i == CHOOSE k \in at : \A j \in at : k <= j
           IN  Some(SubSeq(s, i, i + DigitRun(s, i) - 1))

\* int(digits) and str(n)
DigitValue(c) == (CHOOSE i \in 1..10 : Digits[i] = c) - 1
RECURSIVE ParseInt(_)
ParseInt(ds) ==
  IF ds = <<>> THEN 0 ELSE 10 * ParseInt(SubSeq(ds, 1, Len(ds) - 1)) + DigitValue(ds[Len(ds)])
RECURSIVE FormatInt(_)
FormatInt(n) ==
  IF n < 10 THEN <<Digits[n + 1]>> ELSE FormatInt(n \div 10) \o <<Digits[(n % 10) + 1]>>

----------------------------------------------------------------------------
(* The fixed word lists of the agent *)

followup_keywords ==
  << <<"s","h","o","w"," ","a","l","l">>,
     <<"a","l","l"," ","r","e","s","u","l","t","s">>,
     <<"s","h","o","w"," ","e","v","e","r","y","t","h","i","n","g">>,
     <<"f","u","l","l"," ","t","a","b","l","e">>,
     <<"c","o","m","p","l","e","t","e"," ","l","i","s","t">>,
     <<"e","x","p","a","n","d">>,
     <<"s","h","o","w"," ","m","o","r","e">>,
     <<"s","h","o","w"," ","r","e","s","t">>,
     <<"a","l","l"," ","r","o","w","s">>,
     <<"e","n","t","i","r","e"," ","l","i","s","t">>,
     <<"f","u","l","l"," ","r","e","s","u","l","t","s">>,
     <<"w","i","t","h","o","u","t"," ","l","i","m","i","t">>,
     <<"s","h","o","w"," ","c","o","m","p","l","e","t","e">>,
     <<"a","l","l"," ","d","a","t","a">>,
     <<"e","v","e","r","y","t","h","i","n","g">> >>

casual_words ==
  << <<"h","e","y">>,
     <<"h","i">>,
     <<"h","e","l","l","o">>,
     <<"g","o","o","d"," ","m","o","r","n","i","n","g">>,
     <<"g","o","o","d"," ","a","f","t","e","r","n","o","o","n">>,
     <<"t","h","a","n","k","s">>,
     <<"t","h","a","n","k"," ","y","o","u">>,
     <<"b","y","e">>,
     <<"g","o","o","d","b","y","e">> >>

casual_data_keywords ==
  << <<"s","h","o","w">>,
     <<"l","i","s","t">>,
     <<"g","e","t">>,
     <<"f","i","n","d">>,
     <<"p","r","o","p","e","r","t","i","e","s">>,
     <<"n","o","i">>,
     <<"d","a","t","a">>,
     <<"a","s","s","e","t","s">> >>

data_keywords ==
  << <<"s","h","o","w">>,
     <<"l","i","s","t">>,
     <<"g","e","t">>,
     <<"f","i","n","d">>,
     <<"w","h","a","t">>,
     <<"w","h","i","c","h">>,
     <<"h","o","w"," ","m","a","n","y">>,
     <<"h","o","w"," ","m","u","c","h">>,
     <<"t","o","t","a","l">>,
     <<"s","u","m">>,
     <<"a","v","e","r","a","g","e">>,
     <<"p","r","o","p","e","r","t","i","e","s">>,
     <<"a","s","s","e","t","s">>,
     <<"f","u","n","d","s">>,
     <<"i","n","v","e","s","t","o","r","s">>,
     <<"r","e","v","e","n","u","e">>,
     <<"n","o","i">>,
     <<"d","e","b","t">>,
     <<"e","q","u","i","t","y">>,
     <<"p","e","r","f","o","r","m","a","n","c","e">>,
     <<"r","e","t","u","r","n","s">>,
     <<"c","i","t","i","e","s">>,
     <<"t","a","b","l","e">>,
     <<"c","o","l","u","m","n">>,
     <<"s","c","h","e","m","a">>,
     <<"i","r","r">>,
     <<"m","o","i","c">>,
     <<"o","c","c","u","p","a","n","c","y">>,
     <<"e","x","p","e","n","s","e","s">>,
     <<"c","a","s","h"," ","f","l","o","w">>,
     <<"s","a","l","e">>,
     <<"a","c","q","u","i","s","i","t","i","o","n">>,
     <<"l","e","n","d","e","r">>,
     <<"b","o","r","r","o","w","e","r">>,
     <<"c","o","u","n","t">>,
     <<"c","a","l","c","u","l","a","t","e">>,
     <<"a","n","a","l","y","z","e">>,
     <<"c","o","m","p","a","r","e">>,
     <<"f","i","l","t","e","r">>,
     <<"r","e","p","o","r","t">>,
     <<"p","o","r","t","f","o","l","i","o">>,
     <<"s","u","m","m","a","r","y">>,
     <<"q","1">>,
     <<"q","2">>,
     <<"q","3">>,
     <<"q","4">>,
     <<"q","u","a","r","t","e","r">>,
     <<"y","e","a","r">>,
     <<"y","t","d">>,
     <<"m","o","n","t","h","l","y">>,
     <<"d","e","t","a","i","l">>,
     <<"o","v","e","r","v","i","e","w">>,
     <<"c","o","m","p","a","n","y">>,
     <<"o","u","r">>,
     <<"p","e","r","f","o","r","m","a","n","c","e">>,
     <<"m","e","t","r","i","c","s">>,
     <<"k","p","i">>,
     <<"d","a","s","h","b","o","a","r","d">>,
     <<"a","b","o","v","e">>,
     <<"p","r","e","v","i","o","u","s">>,
     <<"a","g","a","i","n">>,
     <<"d","a","t","e">>,
     <<"f","o","r","m","a","t">>,
     <<"d","i","s","p","l","a","y">>,
     <<"r","e","s","u","l","t","s">>,
     <<"v","a","l","u","e","s">> >>

spelling_corrections ==
  << <<<<"l","i","o","s","t">>, <<"l","i","s","t">>>>,
     <<<<"l","s","i","t">>, <<"l","i","s","t">>>>,
     <<<<"l","s","t">>, <<"l","i","s","t">>>>,
     <<<<"p","o","r","o","f","o","l","i","o">>, <<"p","o","r","t","f","o","l","i","o">>>>,
     <<<<"p","o","r","t","o","f","l","i","o">>, <<"p","o","r","t","f","o","l","i","o">>>>,
     <<<<"p","o","r","t","i","f","o","l","i","o">>, <<"p","o","r","t","f","o","l","i","o">>>>,
     <<<<"p","r","o","p","e","r","t","y","s">>, <<"p","r","o","p","e","r","t","i","e","s">>>>,
     <<<<"p","r","o","p","r","t","i","e","s">>, <<"p","r","o","p","e","r","t","i","e","s">>>>,
     <<<<"a","s","e","e","t","s">>, <<"a","s","s","e","t","s">>>>,
     <<<<"a","s","e","t","s">>, <<"a","s","s","e","t","s">>>>,
     <<<<"r","e","v","e","u","n","e">>, <<"r","e","v","e","n","u","e">>>>,
     <<<<"r","e","v","e","n","u">>, <<"r","e","v","e","n","u","e">>>>,
     <<<<"e","x","p","n","e","s","e">>, <<"e","x","p","e","n","s","e">>>>,
     <<<<"e","x","p","e","n","e","s">>, <<"e","x","p","e","n","s","e","s">>>>,
     <<<<"h","o","p","s","i","t","a","l","i","t","y">>, <<"h","o","s","p","i","t","a","l","i","t","y">>>>,
     <<<<"h","o","p","i","t","a","l","i","t","y">>, <<"h","o","s","p","i","t","a","l","i","t","y">>>>,
     <<<<"m","u","l","t","i","f","a","m","l","y">>, <<"m","u","l","t","i","f","a","m","i","l","y">>>>,
     <<<<"m","u","l","t","i","f","m","a","i","l","y">>, <<"m","u","l","t","i","f","a","m","i","l","y">>>>,
     <<<<"q","a","u","r","t","e","r">>, <<"q","u","a","r","t","e","r">>>>,
     <<<<"q","u","a","t","e","r">>, <<"q","u","a","r","t","e","r">>>>,
     <<<<"f","i","n","a","c","i","a","l">>, <<"f","i","n","a","n","c","i","a","l">>>>,
     <<<<"f","i","a","n","n","c","i","a","l">>, <<"f","i","n","a","n","c","i","a","l">>>> >>

----------------------------------------------------------------------------
(* The SQL text of the ten templates of _generate_intelligent_sql *)

SqlTopPerformingHead ==
    <<"S","E","L","E","C","T"," ","T","O","P"," ">>

SqlTopPerformingTail ==
    <<" ","\n"," "," "," "," "," "," "," "," "," "," "," "," "," "," "," "," "," "," "," "," ",
      " "," "," "," ","a",".","A","s","s","e","t","N","a","m","e",",","\n"," "," "," "," "," ",
      " "," "," "," "," "," "," "," "," "," "," "," "," "," "," "," "," "," "," ","a",".","P",
      "r","o","p","e","r","t","y","T","y","p","e",",","\n"," "," "," "," "," "," "," "," "," ",
      " "," "," "," "," "," "," "," "," "," "," "," "," "," "," ","a",".","C","i","t","y",",",
      "\n"," "," "," "," "," "," "," "," "," "," "," "," "," "," "," "," "," "," "," "," "," ",
      " "," "," ","a",".","S","t","a","t","e",",","\n"," "," "," "," "," "," "," "," "," "," ",
      " "," "," "," "," "," "," "," "," "," "," "," "," "," ","S","U","M","(","a","o",".","N",
      "e","t","O","p","e","r","a","t","i","n","g","I","n","c","o","m","e",")"," ","a","s"," ",
      "T","o","t","a","l","N","O","I",",","\n"," "," "," "," "," "," "," "," "," "," "," "," ",
      " "," "," "," "," "," "," "," "," "," "," "," ","S","U","M","(","a","o",".","T","o","t",
      "a","l","R","e","v","e","n","u","e",")"," ","a","s"," ","T","o","t","a","l","R","e","v",
      "e","n","u","e",",","\n"," "," "," "," "," "," "," "," "," "," "," "," "," "," "," "," ",
      " "," "," "," "," "," "," "," ","A","V","G","(","a","o",".","P","h","y","s","i","c","a",
      "l","O","c","c","u","p","a","n","c","y",")"," ","a","s"," ","A","v","g","O","c","c","u",
      "p","a","n","c","y","\n"," "," "," "," "," "," "," "," "," "," "," "," "," "," "," "," ",
      " "," "," "," ","F","R","O","M"," ","F","a","c","t","A","s","s","e","t","O","p","e","r",
      "a","t","i","o","n","s"," ","a","o","\n"," "," "," "," "," "," "," "," "," "," "," "," ",
      " "," "," "," "," "," "," "," ","J","O","I","N"," ","D","i","m","A","s","s","e","t"," ",
      "a"," ","O","N"," ","a","o",".","A","s","s","e","t","I","D"," ","="," ","a",".","A","s",
      "s","e","t","I","D","\n"," "," "," "," "," "," "," "," "," "," "," "," "," "," "," "," ",
      " "," "," "," ","G","R","O","U","P"," ","B","Y"," ","a",".","A","s","s","e","t","N","a",
      "m","e",","," ","a",".","P","r","o","p","e","r","t","y","T","y","p","e",","," ","a",".",
      "C","i","t","y",","," ","a",".","S","t","a","t","e","\n"," "," "," "," "," "," "," "," ",
      " "," "," "," "," "," "," "," "," "," "," "," ","O","R","D","E","R"," ","B","Y"," ","T",
      "o","t","a","l","N","O","I"," ","D","E","S","C">>

SqlFundEquity ==
    <<"S","E","L","E","C","T"," ","\n"," "," "," "," "," "," "," "," "," "," "," "," "," "," ",
      " "," "," "," "," "," "," "," "," "," ","f",".","F","u","n","d","N","a","m","e",",","\n",
      " "," "," "," "," "," "," "," "," "," "," "," "," "," "," "," "," "," "," "," "," "," ",
      " "," ","S","U","M","(","f","i",".","I","n","v","e","s","t","m","e","n","t","A","m","o",
      "u","n","t",")"," ","a","s"," ","T","o","t","a","l","E","q","u","i","t","y","\n"," "," ",
      " "," "," "," "," "," "," "," "," "," "," "," "," "," "," "," "," "," ","F","R","O","M",
      " ","F","a","c","t","I","n","v","e","s","t","m","e","n","t"," ","f","i","\n"," "," "," ",
      " "," "," "," "," "," "," "," "," "," "," "," "," "," "," "," "," ","J","O","I","N"," ",
      "D","i","m","F","u","n","d"," ","f"," ","O","N"," ","f","i",".","F","u","n","d","I","D",
      " ","="," ","f",".","F","u","n","d","I","D","\n"," "," "," "," "," "," "," "," "," "," ",
      " "," "," "," "," "," "," "," "," "," ","G","R","O","U","P"," ","B","Y"," ","f",".","F",
      "u","n","d","N","a","m","e","\n"," "," "," "," "," "," "," "," "," "," "," "," "," "," ",
      " "," "," "," "," "," ","O","R","D","E","R"," ","B","Y"," ","T","o","t","a","l","E","q",
      "u","i","t","y"," ","D","E","S","C">>

SqlAllProperties ==
    <<"S","E","L","E","C","T"," ","\n"," "," "," "," "," "," "," "," "," "," "," "," "," "," ",
      " "," "," "," "," "," "," "," "," "," ","A","s","s","e","t","N","a","m","e",",","\n"," ",
      " "," "," "," "," "," "," "," "," "," "," "," "," "," "," "," "," "," "," "," "," "," ",
      " ","P","r","o","p","e","r","t","y","T","y","p","e",",","\n"," "," "," "," "," "," "," ",
      " "," "," "," "," "," "," "," "," "," "," "," "," "," "," "," "," ","C","i","t","y",",",
      "\n"," "," "," "," "," "," "," "," "," "," "," "," "," "," "," "," "," "," "," "," "," ",
      " "," "," ","S","t","a","t","e",",","\n"," "," "," "," "," "," "," "," "," "," "," "," ",
      " "," "," "," "," "," "," "," "," "," "," "," ","A","s","s","e","t","S","t","a","t","u",
      "s","\n"," "," "," "," "," "," "," "," "," "," "," "," "," "," "," "," "," "," "," "," ",
      "F","R","O","M"," ","D","i","m","A","s","s","e","t"," ","\n"," "," "," "," "," "," "," ",
      " "," "," "," "," "," "," "," "," "," "," "," "," ","O","R","D","E","R"," ","B","Y"," ",
      "A","s","s","e","t","N","a","m","e">>

SqlCities ==
    <<"S","E","L","E","C","T"," ","D","I","S","T","I","N","C","T"," ","\n"," "," "," "," "," ",
      " "," "," "," "," "," "," "," "," "," "," "," "," "," "," "," "," "," "," ","C","i","t",
      "y",",","\n"," "," "," "," "," "," "," "," "," "," "," "," "," "," "," "," "," "," "," ",
      " "," "," "," "," ","S","t","a","t","e",",","\n"," "," "," "," "," "," "," "," "," "," ",
      " "," "," "," "," "," "," "," "," "," "," "," "," "," ","C","O","U","N","T","(","*",")",
      " ","a","s"," ","P","r","o","p","e","r","t","y","C","o","u","n","t","\n"," "," "," "," ",
      " "," "," "," "," "," "," "," "," "," "," "," "," "," "," "," ","F","R","O","M"," ","D",
      "i","m","A","s","s","e","t"," ","\n"," "," "," "," "," "," "," "," "," "," "," "," "," ",
      " "," "," "," "," "," "," ","W","H","E","R","E"," ","C","i","t","y"," ","I","S"," ","N",
      "O","T"," ","N","U","L","L","\n"," "," "," "," "," "," "," "," "," "," "," "," "," "," ",
      " "," "," "," "," "," ","G","R","O","U","P"," ","B","Y"," ","C","i","t","y",","," ","S",
      "t","a","t","e"," ","\n"," "," "," "," "," "," "," "," "," "," "," "," "," "," "," "," ",
      " "," "," "," ","O","R","D","E","R"," ","B","Y"," ","P","r","o","p","e","r","t","y","C",
      "o","u","n","t"," ","D","E","S","C">>

SqlTotalDebt ==
    <<"S","E","L","E","C","T"," ","\n"," "," "," "," "," "," "," "," "," "," "," "," "," "," ",
      " "," "," "," "," "," "," "," "," "," ","S","U","M","(","C","u","r","r","e","n","t","B",
      "a","l","a","n","c","e",")"," ","a","s"," ","T","o","t","a","l","D","e","b","t",",","\n",
      " "," "," "," "," "," "," "," "," "," "," "," "," "," "," "," "," "," "," "," "," "," ",
      " "," ","C","O","U","N","T","(","*",")"," ","a","s"," ","N","u","m","b","e","r","O","f",
      "L","o","a","n","s",",","\n"," "," "," "," "," "," "," "," "," "," "," "," "," "," "," ",
      " "," "," "," "," "," "," "," "," ","A","V","G","(","I","n","t","e","r","e","s","t","R",
      "a","t","e",")"," ","a","s"," ","A","v","g","I","n","t","e","r","e","s","t","R","a","t",
      "e","\n"," "," "," "," "," "," "," "," "," "," "," "," "," "," "," "," "," "," "," "," ",
      "F","R","O","M"," ","F","a","c","t","D","e","b","t","I","s","s","u","e","d"," ","\n"," ",
      " "," "," "," "," "," "," "," "," "," "," "," "," "," "," "," "," "," "," ","W","H","E",
      "R","E"," ","D","e","b","t","S","t","a","t","u","s"," ","="," ","'","C","u","r","r","e",
      "n","t","'">>

SqlMultifamily ==
    <<"S","E","L","E","C","T"," ","\n"," "," "," "," "," "," "," "," "," "," "," "," "," "," ",
      " "," "," "," "," "," "," "," "," "," ","A","s","s","e","t","I","D",",","\n"," "," "," ",
      " "," "," "," "," "," "," "," "," "," "," "," "," "," "," "," "," "," "," "," "," ","A",
      "s","s","e","t","N","a","m","e",",","\n"," "," "," "," "," "," "," "," "," "," "," "," ",
      " "," "," "," "," "," "," "," "," "," "," "," ","P","r","o","p","e","r","t","y","T","y",
      "p","e",",","\n"," "," "," "," "," "," "," "," "," "," "," "," "," "," "," "," "," "," ",
      " "," "," "," "," "," ","C","i","t","y",",","\n"," "," "," "," "," "," "," "," "," "," ",
      " "," "," "," "," "," "," "," "," "," "," "," "," "," ","S","t","a","t","e",",","\n"," ",
      " "," "," "," "," "," "," "," "," "," "," "," "," "," "," "," "," "," "," "," "," "," ",
      " ","N","u","m","b","e","r","O","f","U","n","i","t","s",",","\n"," "," "," "," "," "," ",
      " "," "," "," "," "," "," "," "," "," "," "," "," "," "," "," "," "," ","T","o","t","a",
      "l","S","q","u","a","r","e","F","o","o","t","a","g","e",",","\n"," "," "," "," "," "," ",
      " "," "," "," "," "," "," "," "," "," "," "," "," "," "," "," "," "," ","A","s","s","e",
      "t","S","t","a","t","u","s","\n"," "," "," "," "," "," "," "," "," "," "," "," "," "," ",
      " "," "," "," "," "," ","F","R","O","M"," ","D","i","m","A","s","s","e","t"," ","\n"," ",
      " "," "," "," "," "," "," "," "," "," "," "," "," "," "," "," "," "," "," ","W","H","E",
      "R","E"," ","P","r","o","p","e","r","t","y","T","y","p","e"," ","="," ","'","M","u","l",
      "t","i","f","a","m","i","l","y","'"," ","\n"," "," "," "," "," "," "," "," "," "," "," ",
      " "," "," "," "," "," "," "," "," ","O","R","D","E","R"," ","B","Y"," ","A","s","s","e",
      "t","N","a","m","e">>

SqlHospitality ==
    <<"S","E","L","E","C","T"," ","\n"," "," "," "," "," "," "," "," "," "," "," "," "," "," ",
      " "," "," "," "," "," "," "," "," "," ","A","s","s","e","t","I","D",",","\n"," "," "," ",
      " "," "," "," "," "," "," "," "," "," "," "," "," "," "," "," "," "," "," "," "," ","A",
      "s","s","e","t","N","a","m","e",",","\n"," "," "," "," "," "," "," "," "," "," "," "," ",
      " "," "," "," "," "," "," "," "," "," "," "," ","P","r","o","p","e","r","t","y","T","y",
      "p","e",",","\n"," "," "," "," "," "," "," "," "," "," "," "," "," "," "," "," "," "," ",
      " "," "," "," "," "," ","P","r","o","p","e","r","t","y","S","u","b","T","y","p","e",",",
      "\n"," "," "," "," "," "," "," "," "," "," "," "," "," "," "," "," "," "," "," "," "," ",
      " "," "," ","C","i","t","y",",","\n"," "," "," "," "," "," "," "," "," "," "," "," "," ",
      " "," "," "," "," "," "," "," "," "," "," ","S","t","a","t","e",",","\n"," "," "," "," ",
      " "," "," "," "," "," "," "," "," "," "," "," "," "," "," "," "," "," "," "," ","N","u",
      "m","b","e","r","O","f","U","n","i","t","s",",","\n"," "," "," "," "," "," "," "," "," ",
      " "," "," "," "," "," "," "," "," "," "," "," "," "," "," ","A","s","s","e","t","S","t",
      "a","t","u","s","\n"," "," "," "," "," "," "," "," "," "," "," "," "," "," "," "," "," ",
      " "," "," ","F","R","O","M"," ","D","i","m","A","s","s","e","t"," ","\n"," "," "," "," ",
      " "," "," "," "," "," "," "," "," "," "," "," "," "," "," "," ","W","H","E","R","E"," ",
      "P","r","o","p","e","r","t","y","T","y","p","e"," ","="," ","'","H","o","s","p","i","t",
      "a","l","i","t","y","'"," ","\n"," "," "," "," "," "," "," "," "," "," "," "," "," "," ",
      " "," "," "," "," "," ","O","R","D","E","R"," ","B","Y"," ","A","s","s","e","t","N","a",
      "m","e">>

SqlPropertyTypes ==
    <<"S","E","L","E","C","T"," ","D","I","S","T","I","N","C","T"," ","\n"," "," "," "," "," ",
      " "," "," "," "," "," "," "," "," "," "," "," "," "," "," "," "," "," "," ","P","r","o",
      "p","e","r","t","y","T","y","p","e",",","\n"," "," "," "," "," "," "," "," "," "," "," ",
      " "," "," "," "," "," "," "," "," "," "," "," "," ","C","O","U","N","T","(","*",")"," ",
      "a","s"," ","C","o","u","n","t","\n"," "," "," "," "," "," "," "," "," "," "," "," "," ",
      " "," "," "," "," "," "," ","F","R","O","M"," ","D","i","m","A","s","s","e","t","\n"," ",
      " "," "," "," "," "," "," "," "," "," "," "," "," "," "," "," "," "," "," ","G","R","O",
      "U","P"," ","B","Y"," ","P","r","o","p","e","r","t","y","T","y","p","e","\n"," "," "," ",
      " "," "," "," "," "," "," "," "," "," "," "," "," "," "," "," "," ","O","R","D","E","R",
      " ","B","Y"," ","C","o","u","n","t"," ","D","E","S","C">>

SqlHighNOI ==
    <<"S","E","L","E","C","T"," ","T","O","P"," ","1","0","\n"," "," "," "," "," "," "," "," ",
      " "," "," "," "," "," "," "," "," "," "," "," "," "," "," "," ","a",".","A","s","s","e",
      "t","N","a","m","e",",","\n"," "," "," "," "," "," "," "," "," "," "," "," "," "," "," ",
      " "," "," "," "," "," "," "," "," ","a",".","P","r","o","p","e","r","t","y","T","y","p",
      "e",",","\n"," "," "," "," "," "," "," "," "," "," "," "," "," "," "," "," "," "," "," ",
      " "," "," "," "," ","a","o",".","N","e","t","O","p","e","r","a","t","i","n","g","I","n",
      "c","o","m","e"," ","a","s"," ","N","O","I",",","\n"," "," "," "," "," "," "," "," "," ",
      " "," "," "," "," "," "," "," "," "," "," "," "," "," "," ","a","o",".","R","e","p","o",
      "r","t","i","n","g","D","a","t","e","K","e","y","\n"," "," "," "," "," "," "," "," "," ",
      " "," "," "," "," "," "," "," "," "," "," ","F","R","O","M"," ","F","a","c","t","A","s",
      "s","e","t","O","p","e","r","a","t","i","o","n","s"," ","a","o","\n"," "," "," "," "," ",
      " "," "," "," "," "," "," "," "," "," "," "," "," "," "," ","J","O","I","N"," ","D","i",
      "m","A","s","s","e","t"," ","a"," ","O","N"," ","a","o",".","A","s","s","e","t","I","D",
      " ","="," ","a",".","A","s","s","e","t","I","D","\n"," "," "," "," "," "," "," "," "," ",
      " "," "," "," "," "," "," "," "," "," "," ","W","H","E","R","E"," ","a","o",".","N","e",
      "t","O","p","e","r","a","t","i","n","g","I","n","c","o","m","e"," ","I","S"," ","N","O",
      "T"," ","N","U","L","L","\n"," "," "," "," "," "," "," "," "," "," "," "," "," "," "," ",
      " "," "," "," "," ","O","R","D","E","R"," ","B","Y"," ","a","o",".","N","e","t","O","p",
      "e","r","a","t","i","n","g","I","n","c","o","m","e"," ","D","E","S","C">>

SqlAcquisitionPrice ==
    <<"S","E","L","E","C","T"," ","\n"," "," "," "," "," "," "," "," "," "," "," "," "," "," ",
      " "," "," "," "," "," "," "," "," "," ","A","s","s","e","t","N","a","m","e",",","\n"," ",
      " "," "," "," "," "," "," "," "," "," "," "," "," "," "," "," "," "," "," "," "," "," ",
      " ","P","r","o","p","e","r","t","y","T","y","p","e",",","\n"," "," "," "," "," "," "," ",
      " "," "," "," "," "," "," "," "," "," "," "," "," "," "," "," "," ","C","i","t","y",",",
      "\n"," "," "," "," "," "," "," "," "," "," "," "," "," "," "," "," "," "," "," "," "," ",
      " "," "," ","S","t","a","t","e",",","\n"," "," "," "," "," "," "," "," "," "," "," "," ",
      " "," "," "," "," "," "," "," "," "," "," "," ","A","c","q","u","i","s","i","t","i","o",
      "n","P","r","i","c","e",",","\n"," "," "," "," "," "," "," "," "," "," "," "," "," "," ",
      " "," "," "," "," "," "," "," "," "," ","A","c","q","u","i","s","i","t","i","o","n","D",
      "a","t","e","\n"," "," "," "," "," "," "," "," "," "," "," "," "," "," "," "," "," "," ",
      " "," ","F","R","O","M"," ","D","i","m","A","s","s","e","t","\n"," "," "," "," "," "," ",
      " "," "," "," "," "," "," "," "," "," "," "," "," "," ","W","H","E","R","E"," ","A","c",
      "q","u","i","s","i","t","i","o","n","P","r","i","c","e"," ","I","S"," ","N","O","T"," ",
      "N","U","L","L","\n"," "," "," "," "," "," "," "," "," "," "," "," "," "," "," "," "," ",
      " "," "," ","O","R","D","E","R"," ","B","Y"," ","A","c","q","u","i","s","i","t","i","o",
      "n","P","r","i","c","e"," ","D","E","S","C">>

----------------------------------------------------------------------------
(* The pure text functions of the agent *)

\* _correct_spelling: each mapping entry replaced in the mapping's insertion order
RECURSIVE ApplyCorrections(_, _)
ApplyCorrections(text, k) ==
  IF k > Len(spelling_corrections) THEN text
  ELSE ApplyCorrections(
         Replace(text, spelling_corrections[k][1], spelling_corrections[k][2]), k + 1)

_correct_spelling(text) == ApplyCorrections(text, 1)

_is_followup_request(question) == ContainsAny(Lower(question), followup_keywords)

_is_casual_conversation(question) ==
  LET question_lower == Strip(Lower(question))
  IN  /\ TokenCount(question_lower) <= 5
      /\ \E p \in 1..Len(casual_words) : SearchWord(question_lower, casual_words[p])
      /\ ~ContainsAny(question_lower, casual_data_keywords)

prior_result_words ==
  << <<"a","b","o","v","e">>, <<"p","r","e","v","i","o","u","s">>, <<"a","g","a","i","n">>, <<"r","e","s","u","l","t","s">>, <<"d","a","t","e">> >>

\* _needs_database_query as it would be if every question were a data question
\* once a query has been stored
_needs_database_query_after_query(question, has_last_sql) ==
  has_last_sql \/ ContainsAny(Lower(question), data_keywords)

\* has_last_sql: whether self.last_sql_query is set (and not the empty text)
_needs_database_query(question, has_last_sql) ==
  LET question_lower == Lower(question)
  IN  \/ has_last_sql /\ ContainsAny(question_lower, prior_result_words)
      \/ ContainsAny(question_lower, data_keywords)

\* TopMatchLen as it would be if the pattern asked for no digits
TopMatchLen_no_number(s) ==
  IF ~(Len(s) >= 3 /\ Lower(SubSeq(s, 1, 3)) = <<"t","o","p">>) THEN 0
  ELSE LET ws == SpaceRun(s, 4)
           ds == DigitRun(s, 4 + ws)
       IN  IF ws = 0 THEN 0 ELSE 3 + ws + ds + SpaceRun(s, 4 + ws + ds)

\* re.sub(r'TOP\s+\d+\s*', '', s, flags=re.IGNORECASE): the length of the match
\* that starts at the head of s, 0 when there is none
TopMatchLen(s) ==
  IF ~(Len(s) >= 3 /\ Lower(SubSeq(s, 1, 3)) = <<"t","o","p">>) THEN 0
  ELSE LET ws == SpaceRun(s, 4)
           ds == DigitRun(s, 4 + ws)
       IN  IF ws = 0 \/ ds = 0 THEN 0 ELSE 3 + ws + ds + SpaceRun(s, 4 + ws + ds)

RECURSIVE SubTop(_)
SubTop(s) ==
  LET at == {i \in 0..(Len(s) - 1) : TopMatchLen(From(s, i)) > 0}
  IN  IF at = {} THEN s
      ELSE LET first == CHOOSE i \in at : \A j \in at : i <= j
           IN  SubSeq(s, 1, first) \o SubTop(From(s, first + TopMatchLen(From(s, first))))

_remove_query_limits(sql_query) == Strip(SubTop(sql_query))

\* the character ` (which a TLA+ string cannot hold)
Backtick == "<backtick>"

\* _clean_sql_query as it would be if it only stripped white space
_clean_sql_query_strips(sql_query) == Strip(sql_query)

_clean_sql_query(sql_query) ==
  LET unfenced == Strip(Replace(Replace(sql_query,
                          <<Backtick,Backtick,Backtick,"s","q","l">>, <<>>),
                          <<Backtick,Backtick,Backtick>>, <<>>))
      unquoted == StripChar(StripChar(unfenced, "\""), "'")
      single   == IF Contains(unquoted, <<";">>) THEN BeforeFirst(unquoted, ";")
                  ELSE unquoted
  IN  Strip(single)

\* the limit of the top-performing template: 5, or the first number of the question
DefaultLimit == 5

\* TopLimit as it would be if the question's number were not read
TopLimit_default(question) == DefaultLimit

TopLimit(question) ==
  IF FirstNumber(question) = None THEN DefaultLimit ELSE ParseInt(The(FirstNumber(question)))

\* the template chain of _generate_intelligent_sql: the SQL of the first template
\* whose predicate matches, None when the question is left to the generative step
\* TemplateSql as it would be if the high-NOI template were tried first
TemplateSql_noi_first(question) ==
  LET q == Lower(question)
      has(w) == Contains(q, w)
  IN  IF (has(<<"n","o","i">>) \/ has(<<"n","e","t"," ","o","p","e","r","a","t","i","n","g"," ","i","n","c","o","m","e">>)) /\ (has(<<"h","i","g","h">>) \/ has(<<"t","o","p">>))
        THEN Some(SqlHighNOI)
      ELSE IF has(<<"t","o","p">>) /\ has(<<"p","e","r","f","o","r","m","i","n","g">>)
        THEN Some(SqlTopPerformingHead \o FormatInt(TopLimit(question)) \o SqlTopPerformingTail)
      ELSE None

TemplateSql(question) ==
  LET q == Lower(question)
      has(w) == Contains(q, w)
  IN  IF has(<<"t","o","p">>) /\ has(<<"p","e","r","f","o","r","m","i","n","g">>)
        THEN Some(SqlTopPerformingHead \o FormatInt(TopLimit(question)) \o SqlTopPerformingTail)
      ELSE IF has(<<"e","q","u","i","t","y">>) /\ has(<<"f","u","n","d">>) THEN Some(SqlFundEquity)
      ELSE IF has(<<"a","l","l"," ","p","r","o","p","e","r","t","i","e","s">>) \/ has(<<"s","h","o","w"," ","p","r","o","p","e","r","t","i","e","s">>) \/ has(<<"s","h","o","w"," ","m","e"," ","a","l","l"," ","p","r","o","p","e","r","t","i","e","s">>)
        THEN Some(SqlAllProperties)
      ELSE IF has(<<"c","i","t","i","e","s">>) \/ has(<<"w","h","a","t"," ","c","i","t","i","e","s">>) THEN Some(SqlCities)
      ELSE IF has(<<"t","o","t","a","l"," ","d","e","b","t">>) \/ has(<<"o","u","t","s","t","a","n","d","i","n","g"," ","d","e","b","t">>) THEN Some(SqlTotalDebt)
      ELSE IF has(<<"m","u","l","t","i","f","a","m","i","l","y">>) THEN Some(SqlMultifamily)
      ELSE IF has(<<"h","o","s","p","i","t","a","l","i","t","y">>) THEN Some(SqlHospitality)
      ELSE IF has(<<"p","r","o","p","e","r","t","y"," ","t","y","p","e","s">>) \/ has(<<"w","h","a","t"," ","p","r","o","p","e","r","t","y"," ","t","y","p","e","s">>) THEN Some(SqlPropertyTypes)
      ELSE IF (has(<<"n","o","i">>) \/ has(<<"n","e","t"," ","o","p","e","r","a","t","i","n","g"," ","i","n","c","o","m","e">>)) /\ (has(<<"h","i","g","h">>) \/ has(<<"t","o","p">>))
        THEN Some(SqlHighNOI)
      ELSE IF has(<<"a","c","q","u","i","s","i","t","i","o","n">>) /\ has(<<"p","r","i","c","e">>) THEN Some(SqlAcquisitionPrice)
      ELSE None

----------------------------------------------------------------------------
(* The inputs the model draws from *)

\* the clients of the server
Clients == {"c1"}
TwoClients == {"c1", "c2"}

\* user questions: a data question that the top-performing template matches, a
\* follow-up request, a greeting and a general question
QTopAssets == <<"t","o","p"," ","3"," ","p","e","r","f","o","r","m","i","n","g"," ","a","s","s","e","t","s">>
QShowAll   == <<"s","h","o","w"," ","a","l","l"," ","r","e","s","u","l","t","s">>
QHey       == <<"h","e","y">>
QWhy       == <<"w","h","y"," ","i","n","v","e","s","t">>
Questions == {QTopAssets, QShowAll, QHey, QWhy}

\* questions asked of a new session: the data question in other letter case and
\* with surrounding white space, greetings with and without data words and
\* follow-up phrases, a correctly spelled and a misspelled data word, and
\* requests that name one and more than one property type
QTopAssetsCaps == <<" ","T","o","p"," ","3"," ","P","e","r","f","o","r","m","i","n","g"," ","A","s","s","e","t","s"," ">>
QHeyShowProperties == <<"h","e","y"," ","s","h","o","w"," ","m","e"," ","p","r","o","p","e","r","t","i","e","s">>
QHeyData           == <<"h","e","y"," ","d","a","t","a">>
QHeyExpand         == <<"h","e","y"," ","e","x","p","a","n","d">>
QShowAllProperties == <<"s","h","o","w"," ","a","l","l"," ","p","r","o","p","e","r","t","i","e","s">>
QRevenue           == <<"r","e","v","e","n","u","e">>
QReveune           == <<"t","o","t","a","l"," ","r","e","v","e","u","n","e">>
QCommercialAndHospitality == <<"l","i","s","t"," ","c","o","m","m","e","r","c","i","a","l"," ","a","n","d"," ","h","o","s","p","i","t","a","l","i","t","y">>
QAllMultifamily    == <<"a","l","l"," ","m","u","l","t","i","f","a","m","i","l","y"," ","a","s","s","e","t","s">>
QHospitality       == <<"l","i","s","t"," ","h","o","s","p","i","t","a","l","i","t","y"," ","a","s","s","e","t","s">>
Phrases ==
  {QHey, QWhy, QTopAssets, QTopAssetsCaps, QHeyShowProperties, QHeyData, QHeyExpand,
   QShowAllProperties, QRevenue, QReveune, QCommercialAndHospitality,
   QAllMultifamily, QHospitality}

\* requests put to the SQL resolution on its own: requests that several
\* templates match, that one matches, and top-performing requests without a
\* number, with a year before the number, with a number written with leading
\* zeros and with a year alone
QTopPerformingNoi == <<"t","o","p"," ","p","e","r","f","o","r","m","i","n","g"," ","n","o","i">>
QTopNoi == <<"t","o","p"," ","n","o","i">>
QAllPropertiesCities == <<"a","l","l"," ","p","r","o","p","e","r","t","i","e","s"," ","i","n"," ","c","i","t","i","e","s">>
QMultifamilyHospitality == <<"m","u","l","t","i","f","a","m","i","l","y"," ","a","n","d"," ","h","o","s","p","i","t","a","l","i","t","y">>
QFundEquityProperties == <<"f","u","n","d"," ","e","q","u","i","t","y"," ","o","f"," ","a","l","l"," ","p","r","o","p","e","r","t","i","e","s">>
QTotalDebtTypes == <<"t","o","t","a","l"," ","d","e","b","t"," ","b","y"," ","p","r","o","p","e","r","t","y"," ","t","y","p","e","s">>
QAcquisitionPrice == <<"a","c","q","u","i","s","i","t","i","o","n"," ","p","r","i","c","e">>
QHighNoiPrice == <<"h","i","g","h"," ","n","o","i"," ","b","y"," ","a","c","q","u","i","s","i","t","i","o","n"," ","p","r","i","c","e">>
QTopPerforming == <<"t","o","p"," ","p","e","r","f","o","r","m","i","n","g"," ","a","s","s","e","t","s">>
QYearTop == <<"2","0","2","3"," ","t","o","p"," ","3"," ","p","e","r","f","o","r","m","i","n","g">>
QTopPadded == <<"t","o","p"," ","0","0","7"," ","p","e","r","f","o","r","m","i","n","g">>
QTopOfYear == <<"t","o","p"," ","p","e","r","f","o","r","m","i","n","g"," ","o","f"," ","2","0","2","3">>
Requests ==
  {QTopPerformingNoi, QTopNoi, QAllPropertiesCities, QMultifamilyHospitality,
   QFundEquityProperties, QTotalDebtTypes, QAcquisitionPrice, QHighNoiPrice,
   QTopPerforming, QYearTop, QTopPadded, QTopOfYear}

\* completions of the generative capability when it is asked for SQL
GenTopFive  == <<"S","E","L","E","C","T"," ","T","O","P"," ","5"," ","*"," ","F","R","O","M"," ","D","i","m","A","s","s","e","t"," ","O","R","D","E","R"," ","B","Y"," ","X">>
GenNested  == <<"s","e","l","e","c","t"," ","T","O","t","o","p"," ","1"," ","p"," ","2"," ","a"," ","f","r","o","m"," ","t">>
GenRefusal == <<"N","o","t"," ","p","o","s","s","i","b","l","e">>
GenEmpty   == <<>>
\* a fenced completion of two statements, the first without a row limit
GenFenced  == <<Backtick,Backtick,Backtick,"s","q","l","\n","S","E","L","E","C","T"," ","b"," ","F","R","O","M"," ","t",";"," ","D","R","O","P"," ","T","A","B","L","E"," ","t","\n",Backtick,Backtick,Backtick>>
GenTexts == {GenTopFive, GenFenced, GenNested, GenRefusal, GenEmpty}

\* texts returned by the SQL resolution, made of at most MaxPieces pieces: parts
\* of code fences, statement terminators, quotes, white space and other text
Pieces ==
  {<<Backtick>>, <<Backtick, Backtick>>, <<"s","q","l">>, <<";">>, <<"\"">>, <<"'">>,
   <<" ">>, <<"a">>}
RECURSIVE PieceTexts(_)
PieceTexts(n) ==
  IF n = 0 THEN {<<>>}
  ELSE PieceTexts(n - 1) \cup {t \o p : t \in PieceTexts(n - 1), p \in Pieces}
ResolvedTexts == PieceTexts(MaxPieces) \ {<<>>}

\* SQL texts given to the limit editor, made of at most MaxPieces pieces: the
\* keyword in two letter cases (one of them in two halves), white space, a
\* digit and other text
LimitPieces ==
  {<<"T","O","P">>, <<"t","o">>, <<"p">>, <<" ">>, <<"1">>, <<"a">>}
RECURSIVE LimitPieceTexts(_)
LimitPieceTexts(n) ==
  IF n = 0 THEN {<<>>}
  ELSE LimitPieceTexts(n - 1) \cup {t \o p : t \in LimitPieceTexts(n - 1), p \in LimitPieces}
LimitTexts == LimitPieceTexts(MaxPieces) \ {<<>>}

\* questions that refer to the previous query: a sorting request, and a general
\* question that does not
QSortAbove == <<"s","o","r","t"," ","t","h","e"," ","a","b","o","v","e"," ","b","y"," ","c","i","t","y">>
ContextQuestions == {QSortAbove, QWhy}

\* previous queries made of at most MaxPieces pieces: a subquery that is
\* ordered, ordering clauses in both letter cases and other text; and a query
\* that orders a subquery and its own result
OrderPieces ==
  {<<"(","s"," ","O","R","D","E","R"," ","B","Y"," ","a",")"," ">>,
   <<"O","R","D","E","R"," ","B","Y"," ","b">>, <<"o","r","d","e","r"," ","b","y"," ","c">>,
   <<"s"," ">>, <<"O","R","D","E","R"," ">>}
RECURSIVE OrderPieceTexts(_)
OrderPieceTexts(n) ==
  IF n = 0 THEN {<<>>}
  ELSE OrderPieceTexts(n - 1) \cup {t \o p : t \in OrderPieceTexts(n - 1), p \in OrderPieces}
SqlNestedOrder ==
  <<"S","E","L","E","C","T"," ","*"," ","F","R","O","M"," ","(","S","E","L","E","C","T"," ",
    "T","O","P"," ","5"," ","a"," ","F","R","O","M"," ","t"," ","O","R","D","E","R"," ","B","Y"," ",
    "a",")"," ","s"," ","O","R","D","E","R"," ","B","Y"," ","b">>
OrderTexts == (OrderPieceTexts(MaxPieces) \ {<<>>}) \cup {SqlNestedOrder}

\* the row counts a query may return
RowCounts == {0, 10}

----------------------------------------------------------------------------
(* Values *)

\* a DataFrame: the query it is the result of (None for a bare pd.DataFrame()),
\* the number of its rows and whether it carries the query's columns
Frame(sql, rows) == [of |-> Some(sql), rows |-> rows, cols |-> TRUE]
EmptyFrame == [of |-> None, rows |-> 0, cols |-> FALSE]

\* the sql_query of a response that ran no query
NoQueryNeeded == <<"No database query needed">>

Insight(msg) == [msg |-> msg, question |-> None, rows |-> 0, tip |-> FALSE]

\* {"success": False, "error": msg}
Failure(msg) ==
  [success |-> FALSE, error |-> Some(msg), question |-> None, sql_query |-> None,
   data |-> None, insights |-> None, row_count |-> None, conversation_type |-> None]

\* a successful response dictionary
Success(question, sql_query, data, insights, row_count, conversation_type) ==
  [success |-> TRUE, error |-> None, question |-> Some(question),
   sql_query |-> Some(sql_query), data |-> Some(data), insights |-> Some(insights),
   row_count |-> Some(row_count), conversation_type |-> conversation_type]

\* A turn in progress: the agent's fields (mem, lqr, lsq, lq: conversation_memory,
\* last_query_result, last_sql_query, last_question), the connection of self.db,
\* what the turn has done so far (calls of db.connect, the SQL passed to
\* db.execute_query, the row count of the frame the last execution returned,
\* completions requested for SQL, where the SQL came from, the text the SQL
\* resolution returned, how the completion asked for insights ended, whether
\* db.close() raised, the handlers entered, the base query put in the prompt of
\* a request to modify the previous query), the value returned and whether an
\* exception is propagating.
Return(m, r) == [m EXCEPT !.ret = Some(r)]
\* the turn as a handler is entered
Entered(m, handler) == [m EXCEPT !.handler = Append(@, handler)]
Raise(m) == [m EXCEPT !.exc = TRUE]

----------------------------------------------------------------------------
(* The database executor: connect() -> bool, execute_query(sql) -> frame or   *)
(* None, close(); each call may also raise.                                  *)

ConnectOutcomes == {"ok", "fail", "raise"}
ExecuteOutcomes ==
  {[kind |-> "raise", rows |-> 0], [kind |-> "none", rows |-> 0]}
    \cup {[kind |-> "frame", rows |-> n] : n \in RowCounts}
CloseOutcomes == {"ok", "raise"}

db_connect(m, o) ==
  [m EXCEPT !.connects = @ + 1,
            !.conn = IF o = "ok" THEN "open" ELSE @,
            !.exc = (o = "raise")]

db_execute_query(m, sql, o) ==
  [m EXCEPT !.executed = Append(@, sql),
            !.result = IF o.kind = "frame" THEN Some(o.rows) ELSE None,
            !.exc = (o.kind = "raise")]

db_close(m, o) ==
  IF o = "ok" THEN [m EXCEPT !.conn = "closed"]
  ELSE Raise([m EXCEPT !.close_raised = TRUE])

----------------------------------------------------------------------------
(* The generative capability: a completion is a text, or the call raises *)

SqlCompletions ==
  {[kind |-> "text", text |-> t] : t \in GenTexts} \cup {[kind |-> "raise", text |-> <<>>]}
InsightCompletions == {"text", "raise"}
GeneralCompletions == {"text", "raise"}

----------------------------------------------------------------------------
(* The handlers.  Each maps a turn in progress to the set of turns it can end *)
(* in, one for every outcome of the collaborators it calls.                   *)

\* the rerun test of _generate_intelligent_sql over conversation_memory[-5:]
RecentWindow == 5

\* is_edited_query as it would be without the rerun test
is_edited_query_never(mem, question) == FALSE

is_edited_query(mem, question) ==
  \E i \in 1..Len(mem) :
     /\ i > Len(mem) - RecentWindow
     /\ mem[i].role = "user"
     /\ Strip(Lower(mem[i].content)) = Strip(Lower(question))

\* The text functions of a turn depend on the question alone; these tables hold
\* them for the model's questions, so that they are computed once.
CorrectedQuestions ==
  {<<q, _correct_spelling(q)>> : q \in Questions \cup Phrases \cup ContextQuestions}
Corrected(q) == (CHOOSE p \in CorrectedQuestions : p[1] = q)[2]

\* the words and phrases by which _generate_intelligent_sql takes a question for
\* a request to modify the previous query (lines 548-551)
modification_words ==
  << <<"a","b","o","v","e">>, <<"p","r","e","v","i","o","u","s">>, <<"t","h","o","s","e">>,
     <<"t","h","e","s","e">>, <<"l","a","s","t">>, <<"a","g","a","i","n">>,
     <<"d","a","t","e">>, <<"f","o","r","m","a","t">>, <<"d","i","s","p","l","a","y">>,
     <<"s","h","o","w"," ","a","s"," ","d","a","t","e">>, <<"r","e","a","d","a","b","l","e">>,
     <<"w","i","t","h"," ","r","e","s","p","e","c","t"," ","t","o">>, <<"s","o","r","t"," ","b","y">>,
     <<"o","r","d","e","r"," ","b","y">>, <<"b","a","s","e","d"," ","o","n">> >>
IsModificationRequest(question) == ContainsAny(Lower(question), modification_words)

\* the model's questions that are such requests, computed once
ModificationRequests ==
  {q \in {p[2] : p \in CorrectedQuestions} : IsModificationRequest(q)}

\* base_query of lines 553-556: the text before the leftmost match of
\* re.search(r'ORDER BY.*$', base_query, re.IGNORECASE | re.DOTALL), stripped, or
\* the whole query when there is no match
BaseQuery(sql) ==
  LET at == {i \in 0..(Len(sql) - 8) :
               Lower(SubSeq(sql, i + 1, i + 8)) = <<"o","r","d","e","r"," ","b","y">>}
  IN  IF at = {} THEN sql
      ELSE Strip(SubSeq(sql, 1, CHOOSE i \in at : \A j \in at : i <= j))

\* the base query previous_context holds (lines 551-561), None when the prompt
\* gets no previous_context
previous_context(last_sql_query, question) ==
  IF last_sql_query # None /\ The(last_sql_query) # <<>> /\ question \in ModificationRequests
  THEN Some(BaseQuery(The(last_sql_query)))
  ELSE None

\* the SQL for a question: a template's, or the completion's (None when the
\* completion raises); each result pairs the turn with the optional SQL text
_generate_intelligent_sql(m, question) ==
  IF ~is_edited_query(m.mem, question) /\ TemplateSql(question) # None
  THEN {[m   |-> [m EXCEPT !.sql_from = "template", !.sql_text = TemplateSql(question)],
         sql |-> TemplateSql(question)]}
  ELSE {LET sql_query == IF c.kind = "text" THEN Some(Strip(c.text)) ELSE None
        IN  [m   |-> [m EXCEPT !.sql_gen = @ + 1, !.sql_from = "generated",
                               !.sql_text = sql_query,
                               !.base_query = previous_context(m.lsq, question)],
             sql |-> sql_query]
        : c \in SqlCompletions}

\* _generate_business_insights: the completion, or the fallback sentence
_generate_business_insights(rows, o) ==
  IF o = "text"
  THEN [Insight("<generated insights>") EXCEPT !.rows = rows]
  ELSE [Insight("Query executed successfully and returned {rows} results with columns: {columns}")
          EXCEPT !.rows = rows]

\* the except clause of the two database handlers
HandlerExcept(m, msg) ==
  IF ~m.exc THEN {m}
  ELSE IF m.conn = "open"
       THEN {IF c = "ok" THEN Return([db_close(m, c) EXCEPT !.exc = FALSE], Failure(msg))
                         ELSE db_close(m, c)
             : c \in CloseOutcomes}
       ELSE {Return([m EXCEPT !.exc = FALSE], Failure(msg))}

\* the rows from which a limited result gets the "show all results" tip, and the
\* rows above which a follow-up result is called a large dataset
TipRows == 10
LargeRows == 50

\* EmptyResult as it would be if no rows were reported as an error
EmptyResult_fails(stored, question, cleaned_query) ==
  {Return(stored, Failure("No data found for your query."))}

\* _handle_database_query, a result of no rows (lines 341-349)
EmptyResult(stored, question, cleaned_query) ==
  {Return(stored,
          Success(question, cleaned_query, EmptyFrame,
                  Insight("No data found for your query. The database might not contain the specific information you're looking for, or the filters might be too restrictive."),
                  0, None))}

\* RowsResult as it would be if a failure of the completion asked for insights
\* were not caught
RowsResult_insight_fails(stored, question, cleaned_query, rows) ==
  UNION {
    LET insights == [_generate_business_insights(rows, i) EXCEPT
                       !.tip = Contains(Upper(cleaned_query), <<"T","O","P"," ">>) /\ rows >= TipRows]
        noted == [stored EXCEPT !.insight_out = i, !.mem = Append(@,
                    [role |-> "assistant",
                     content |-> <<"Q","u","e","r","y"," ","r","e","t","u","r","n","e","d"," ">> \o FormatInt(rows)
                                 \o <<" ","r","e","s","u","l","t","s"," ","f","r","o","m"," ">> \o question])]
    IN  IF i = "raise" THEN {Raise([stored EXCEPT !.insight_out = i])}
        ELSE {IF c = "ok"
              THEN Return(db_close(noted, c),
                          Success(question, cleaned_query, Frame(cleaned_query, rows),
                                  insights, rows, None))
              ELSE db_close(noted, c)
              : c \in CloseOutcomes}
    : i \in InsightCompletions}

\* _handle_database_query, a result with rows (lines 351-373)
RowsResult(stored, question, cleaned_query, rows) ==
  UNION {
    LET insights == [_generate_business_insights(rows, i) EXCEPT
                       !.tip = Contains(Upper(cleaned_query), <<"T","O","P"," ">>) /\ rows >= TipRows]
        noted == [stored EXCEPT !.insight_out = i, !.mem = Append(@,
                    [role |-> "assistant",
                     content |-> <<"Q","u","e","r","y"," ","r","e","t","u","r","n","e","d"," ">> \o FormatInt(rows)
                                 \o <<" ","r","e","s","u","l","t","s"," ","f","r","o","m"," ">> \o question])]
    IN  {IF c = "ok"
         THEN Return(db_close(noted, c),
                     Success(question, cleaned_query, Frame(cleaned_query, rows),
                             insights, rows, None))
         ELSE db_close(noted, c)
         : c \in CloseOutcomes}
    : i \in InsightCompletions}

\* _handle_database_query once the query has returned a frame (lines 337-373)
QueryExecuted(m, question, cleaned_query, rows) ==
  LET stored == [m EXCEPT !.lqr = Some(IF rows > 0 THEN Frame(cleaned_query, rows)
                                                   ELSE EmptyFrame),
                          !.lsq = Some(cleaned_query)]
  IN  IF rows = 0 THEN EmptyResult(stored, question, cleaned_query)
      ELSE RowsResult(stored, question, cleaned_query, rows)

\* ExecutionFailed as it would be if a failed execution cleared the last query
ExecutionFailed_forgets(m, cleaned_query) ==
  {Return([m EXCEPT !.lsq = None, !.lqr = None],
          Failure("Query execution failed. Please check the query syntax."))}

\* ExecutionFailed as it would be if the query were stored before the result is
\* tested
ExecutionFailed_stores(m, cleaned_query) ==
  {Return([m EXCEPT !.lsq = Some(cleaned_query)],
          Failure("Query execution failed. Please check the query syntax."))}

\* _handle_database_query when execute_query returned None (lines 334-335)
ExecutionFailed(m, cleaned_query) ==
  {Return(m, Failure("Query execution failed. Please check the query syntax."))}

\* QueryResolved as it would be if the completion were not searched for the
\* refusal phrase
QueryResolved_runs_refusal(m, question, sql_query) ==
  IF sql_query = None \/ The(sql_query) = <<>>
  THEN {Return(m, Failure("Could not generate a valid SQL query for this question. Try being more specific."))}
  ELSE LET cleaned_query == _clean_sql_query(The(sql_query))
       IN  UNION {
             LET ran == db_execute_query(m, cleaned_query, o)
             IN  IF o.kind = "raise" THEN {ran}
                 ELSE IF o.kind = "none" THEN ExecutionFailed(ran, cleaned_query)
                 ELSE QueryExecuted(ran, question, cleaned_query, o.rows)
             : o \in ExecuteOutcomes}

\* _handle_database_query after the SQL has been resolved (lines 324-335)
QueryResolved(m, question, sql_query) ==
  IF sql_query = None \/ The(sql_query) = <<>>
       \/ Contains(Lower(The(sql_query)), <<"n","o","t"," ","p","o","s","s","i","b","l","e">>)
  THEN {Return(m, Failure("Could not generate a valid SQL query for this question. Try being more specific."))}
  ELSE LET cleaned_query == _clean_sql_query(The(sql_query))
       IN  UNION {
             LET ran == db_execute_query(m, cleaned_query, o)
             IN  IF o.kind = "raise" THEN {ran}
                 ELSE IF o.kind = "none" THEN ExecutionFailed(ran, cleaned_query)
                 ELSE QueryExecuted(ran, question, cleaned_query, o.rows)
             : o \in ExecuteOutcomes}

_handle_database_query(m, question) ==
  LET body == UNION {
        LET connected == db_connect(Entered(m, "database"), o)
        IN  IF o = "raise" THEN {connected}
            ELSE IF o = "fail" THEN {Return(connected, Failure("Database connection failed"))}
            ELSE UNION {QueryResolved(g.m, question, g.sql)
                        : g \in _generate_intelligent_sql(connected, question)}
        : o \in ConnectOutcomes}
  IN  UNION {HandlerExcept(b, "Database query failed") : b \in body}

\* NoPreviousQuery as it would be if the handler connected before testing
\* last_sql_query
NoPreviousQuery_connects(m) ==
  {Return(db_connect(m, "ok"),
          Failure("No previous query to expand. Please ask a specific question first."))}

\* _handle_followup_request without a previous query (lines 166-170)
NoPreviousQuery(m) ==
  {Return(m, Failure("No previous query to expand. Please ask a specific question first."))}

\* ExpandPrevious as it would be if the expanded query were stored before the
\* result is tested
ExpandPrevious_stores_first(m, question) ==
  LET expanded_query == _remove_query_limits(The(m.lsq))
  IN  UNION {
        LET connected == db_connect(m, o)
        IN  IF o = "raise" THEN {connected}
            ELSE IF o = "fail" THEN {Return(connected, Failure("Database connection failed"))}
            ELSE UNION {
              LET ran == db_execute_query(connected, expanded_query, e)
                  stored == [ran EXCEPT !.lqr = Some(Frame(expanded_query, e.rows)),
                                        !.lsq = Some(expanded_query)]
                  insights == [Insight("Showing complete results for your previous question: '{last_question}'. Found {rows} total rows.")
                                 EXCEPT !.question = m.lq, !.rows = e.rows,
                                        !.tip = e.rows > LargeRows]
              IN  IF e.kind = "raise" THEN {ran}
                  ELSE IF e.kind = "none"
                    THEN {Return(stored, Failure("Expanded query execution failed"))}
                  ELSE {IF c = "ok"
                        THEN Return(db_close(stored, c),
                                    Success(question, expanded_query,
                                            Frame(expanded_query, e.rows),
                                            insights, e.rows, None))
                        ELSE db_close(stored, c)
                        : c \in CloseOutcomes}
              : e \in ExecuteOutcomes}
        : o \in ConnectOutcomes}

\* _handle_followup_request with a previous query (lines 172-203)
ExpandPrevious(m, question) ==
  LET expanded_query == _remove_query_limits(The(m.lsq))
  IN  UNION {
        LET connected == db_connect(m, o)
        IN  IF o = "raise" THEN {connected}
            ELSE IF o = "fail" THEN {Return(connected, Failure("Database connection failed"))}
            ELSE UNION {
              LET ran == db_execute_query(connected, expanded_query, e)
                  stored == [ran EXCEPT !.lqr = Some(Frame(expanded_query, e.rows)),
                                        !.lsq = Some(expanded_query)]
                  insights == [Insight("Showing complete results for your previous question: '{last_question}'. Found {rows} total rows.")
                                 EXCEPT !.question = m.lq, !.rows = e.rows,
                                        !.tip = e.rows > LargeRows]
              IN  IF e.kind = "raise" THEN {ran}
                  ELSE IF e.kind = "none"
                    THEN {Return(ran, Failure("Expanded query execution failed"))}
                  ELSE {IF c = "ok"
                        THEN Return(db_close(stored, c),
                                    Success(question, expanded_query,
                                            Frame(expanded_query, e.rows),
                                            insights, e.rows, None))
                        ELSE db_close(stored, c)
                        : c \in CloseOutcomes}
              : e \in ExecuteOutcomes}
        : o \in ConnectOutcomes}

_handle_followup_request(m, question) ==
  LET body == IF m.lsq = None \/ The(m.lsq) = <<>> THEN NoPreviousQuery(Entered(m, "followup"))
              ELSE ExpandPrevious(Entered(m, "followup"), question)
  IN  UNION {HandlerExcept(b, "Follow-up request failed") : b \in body}

\* a CASUAL_RESPONSES entry whose key the question contains, or the default greeting
CasualInsights ==
  {Insight("<CASUAL_RESPONSES entry>"),
   Insight("Hello! I'm your Real Estate AI assistant. I can help you analyze your portfolio of 12 properties across different sectors. What would you like to know?")}

\* _handle_casual_conversation as it would be if it cleared the last query
_handle_casual_conversation_forgets(m, question) ==
  {Return(Entered([m EXCEPT !.lsq = None, !.lqr = None], "casual"),
          Success(question, NoQueryNeeded, EmptyFrame, i, 0, Some("casual")))
   : i \in CasualInsights}

_handle_casual_conversation(m, question) ==
  {Return(Entered(m, "casual"),
          Success(question, NoQueryNeeded, EmptyFrame, i, 0, Some("casual")))
   : i \in CasualInsights}

_handle_general_question(m, question) ==
  {IF o = "text"
   THEN Return(Entered(m, "general"),
               Success(question, NoQueryNeeded, EmptyFrame,
                       Insight("<generated answer>"), 0, Some("general")))
   ELSE Return(Entered(m, "general"), Failure("Could not process general question"))
   : o \in GeneralCompletions}

\* Dispatch as it would be if the casual test came before the follow-up test
Dispatch_casual_first(question, has_last_sql) ==
  IF _is_casual_conversation(question) THEN "casual"
  ELSE IF _is_followup_request(question) THEN "followup"
  ELSE IF _needs_database_query(question, has_last_sql) THEN "database"
  ELSE "general"

\* the handler chat dispatches the corrected question to
Dispatch(question, has_last_sql) ==
  IF _is_followup_request(question) THEN "followup"
  ELSE IF _is_casual_conversation(question) THEN "casual"
  ELSE IF _needs_database_query(question, has_last_sql) THEN "database"
  ELSE "general"

\* the handler of each of the model's questions, with and without a last query
Dispatches ==
  {<<p[2], b, Dispatch(p[2], b)>> : p \in CorrectedQuestions, b \in BOOLEAN}
Intent(question, last_sql_query) ==
  (CHOOSE d \in Dispatches :
     d[1] = question /\ d[2] = (last_sql_query # None /\ The(last_sql_query) # <<>>))[3]

\* what each of the three predicates of chat says of a corrected question, with
\* and without a last query
Classified ==
  {[question |-> p[2],
    followup |-> _is_followup_request(p[2]),
    casual   |-> _is_casual_conversation(p[2]),
    needs    |-> [b \in BOOLEAN |-> _needs_database_query(p[2], b)]]
   : p \in CorrectedQuestions}
Predicates(question) == CHOOSE c \in Classified : c.question = question

\* ChatExcept as it would be if chat let exceptions through
ChatExcept_reraises(h) == h

\* the except clause of chat (lines 138-139)
ChatExcept(h) ==
  IF h.exc THEN Return([h EXCEPT !.exc = FALSE], Failure("Error processing question"))
  ELSE h

\* chat as it would be if the user entry were appended after the handler has
\* run
chat_appends_after(m, user_question) ==
  LET corrected_question == Corrected(user_question)
      asked == [m EXCEPT !.lq = Some(user_question)]
      intent == Intent(corrected_question, asked.lsq)
      handled ==
        CASE intent = "followup" -> _handle_followup_request(asked, corrected_question)
          [] intent = "casual"   -> _handle_casual_conversation(asked, corrected_question)
          [] intent = "database" -> _handle_database_query(asked, corrected_question)
          [] OTHER               -> _handle_general_question(asked, corrected_question)
  IN  {ChatExcept([h EXCEPT !.mem = Append(@, [role |-> "user",
                                                content |-> corrected_question])])
       : h \in handled}

\* chat as it would be if a question the transcript already holds were not
\* appended again
chat_dedups(m, user_question) ==
  LET corrected_question == Corrected(user_question)
      entry == [role |-> "user", content |-> corrected_question]
      asked == [m EXCEPT !.lq = Some(user_question),
                         !.mem = IF \E i \in 1..Len(@) : @[i] = entry THEN @
                                 ELSE Append(@, entry)]
      intent == Intent(corrected_question, asked.lsq)
      handled ==
        CASE intent = "followup" -> _handle_followup_request(asked, corrected_question)
          [] intent = "casual"   -> _handle_casual_conversation(asked, corrected_question)
          [] intent = "database" -> _handle_database_query(asked, corrected_question)
          [] OTHER               -> _handle_general_question(asked, corrected_question)
  IN  {ChatExcept(h) : h \in handled}

chat(m, user_question) ==
  LET corrected_question == Corrected(user_question)
      asked == [m EXCEPT !.lq = Some(user_question),
                         !.mem = Append(@, [role |-> "user",
                                            content |-> corrected_question])]
      intent == Intent(corrected_question, asked.lsq)
      handled ==
        CASE intent = "followup" -> _handle_followup_request(asked, corrected_question)
          [] intent = "casual"   -> _handle_casual_conversation(asked, corrected_question)
          [] intent = "database" -> _handle_database_query(asked, corrected_question)
          [] OTHER               -> _handle_general_question(asked, corrected_question)
  IN  {ChatExcept(h) : h \in handled}

----------------------------------------------------------------------------
(* The server: one module-level agent (chat_agent) that every client's       *)
(* request is served by, one request at a time.                              *)

VARIABLES
  conversation_memory,  \* chat_agent.conversation_memory: [role, content] entries
  last_query_result,    \* chat_agent.last_query_result: an optional frame
  last_sql_query,       \* chat_agent.last_sql_query: an optional SQL text
  last_question,        \* chat_agent.last_question: an optional question text
  db_connection,        \* chat_agent.db.connection: "open" or "closed"
  last_query_results,   \* last_query_results["data"] of the server: the optional
                        \* rows stored for download
  turn,                 \* what the most recent request did and returned
  hist                  \* history of the session, kept for stating properties

vars == <<conversation_memory, last_query_result, last_sql_query, last_question,
          db_connection, last_query_results, turn, hist>>

\* the user entries of the transcript: the turns taken since the last reset
UserTurns(mem) == Cardinality({i \in 1..Len(mem) : mem[i].role = "user"})

NoTurn ==
  [op |-> "start", client |-> None, question |-> None, intent |-> "none",
   connects |-> 0, executed |-> <<>>, result |-> None, sql_gen |-> 0,
   sql_from |-> "none", sql_text |-> None, insight_out |-> "none",
   close_raised |-> FALSE, handler |-> <<>>, ret |-> None, raised |-> FALSE,
   pending |-> {}, base_query |-> None, exported |-> None]

\* History of a session in which nothing has been executed: the SQL and the row
\* count of the most recent execution that returned a frame, whether the most
\* recent database-query turn executed (None before the first), whether any has,
\* the client whose turn that SQL came from, the clients that have had a query
\* of their own executed since they last reset, whether the most recent
\* request but one at most was a reset that cleared an executed query, and the
\* question of the most recent database-query turn whose query returned a frame
NoHistory ==
  [ok_sql |-> None, ok_rows |-> None, db_ok |-> None, db_any |-> FALSE,
   owner |-> None, own |-> {}, cleared |-> FALSE, ok_question |-> None]

\* PortfolioChatAgent.__init__
Init ==
  /\ conversation_memory = <<>>
  /\ last_query_result = None
  /\ last_sql_query = None
  /\ last_question = None
  /\ db_connection = "closed"
  /\ turn = NoTurn
  /\ last_query_results = None
  /\ hist = NoHistory

\* the agent as a turn starts
TurnStart ==
  [mem |-> conversation_memory, lqr |-> last_query_result, lsq |-> last_sql_query,
   lq |-> last_question, conn |-> db_connection,
   connects |-> 0, executed |-> <<>>, result |-> None, sql_gen |-> 0,
   sql_from |-> "none", sql_text |-> None, insight_out |-> "none",
   close_raised |-> FALSE, handler |-> <<>>, ret |-> None, exc |-> FALSE,
   base_query |-> None]

\* hist after client c's turn of the given intent ended as m
Recorded(c, intent, m) ==
  LET ok == m.result # None
  IN  [ok_sql  |-> IF ok THEN Some(m.executed[Len(m.executed)]) ELSE hist.ok_sql,
       ok_rows |-> IF ok THEN m.result ELSE hist.ok_rows,
       db_ok   |-> IF intent = "database" THEN Some(ok) ELSE hist.db_ok,
       db_any  |-> hist.db_any \/ (intent = "database" /\ ok),
       owner   |-> IF ok THEN Some(c) ELSE hist.owner,
       own     |-> IF ok THEN hist.own \cup {c} ELSE hist.own,
       cleared |-> turn.op = "reset" /\ hist.cleared,
       ok_question |-> IF ok /\ intent = "database" THEN m.lq ELSE hist.ok_question]

\* data_list of chat_endpoint (lines 958-960): the records of a frame that has
\* rows, the empty list otherwise
data_list(frame) == IF frame.rows > 0 THEN frame ELSE EmptyFrame

\* last_query_results["data"] after chat_endpoint got result from chat_agent.chat
\* (lines 956-972): replaced when the result says success, left alone otherwise
StoredForDownload(result, stored) ==
  IF result # None /\ The(result).success
  THEN Some(data_list(The(The(result).data)))
  ELSE stored

\* chat_endpoint after chat_agent.chat(request.question) has run as m: the
\* agent's fields are what the run left, the response is what it returned and a
\* successful response is stored for download
Returned(c, q, m) ==
  /\ conversation_memory' = m.mem
  /\ last_query_result' = m.lqr
  /\ last_sql_query' = m.lsq
  /\ last_question' = m.lq
  /\ db_connection' = m.conn
  /\ last_query_results' = StoredForDownload(m.ret, last_query_results)
  /\ turn' = [op |-> "chat", client |-> Some(c), question |-> Some(q),
              intent |-> Intent(Corrected(q), last_sql_query),
              connects |-> m.connects, executed |-> m.executed,
              result |-> m.result, sql_gen |-> m.sql_gen,
              sql_from |-> m.sql_from, sql_text |-> m.sql_text,
              insight_out |-> m.insight_out, close_raised |-> m.close_raised,
              handler |-> m.handler,
              ret |-> m.ret, raised |-> m.exc, pending |-> {},
              base_query |-> m.base_query, exported |-> None]
  /\ hist' = Recorded(c, Intent(Corrected(q), last_sql_query), m)

\* POST /api/chat: one call of chat_agent.chat, from the request to the response
ChatEndpoint(c, q) ==
  /\ UserTurns(conversation_memory) < MaxTurns
  /\ \E m \in chat(TurnStart, q) : Returned(c, q, m)

\* ResetConversation as it would be if it left the last query in place
ResetConversation_keeps_query(c) ==
  /\ conversation_memory' = <<>>
  /\ last_query_result' = None
  /\ last_question' = None
  /\ UNCHANGED <<db_connection, last_sql_query, last_query_results>>
  /\ turn' = [NoTurn EXCEPT !.op = "reset", !.client = Some(c)]
  /\ hist' = [hist EXCEPT !.own = hist.own \ {c}, !.cleared = hist.ok_sql # None]

\* GET /api/conversation/reset
ResetConversation(c) ==
  /\ conversation_memory' = <<>>
  /\ last_query_result' = None
  /\ last_sql_query' = None
  /\ last_question' = None
  /\ UNCHANGED <<db_connection, last_query_results>>
  /\ turn' = [NoTurn EXCEPT !.op = "reset", !.client = Some(c)]
  /\ hist' = [NoHistory EXCEPT !.own = hist.own \ {c}, !.cleared = hist.ok_sql # None]

\* one client talking to the server
Next ==
  \/ \E c \in Clients, q \in Questions : ChatEndpoint(c, q)
  \/ \E c \in Clients : ResetConversation(c)

Spec == Init /\ [][Next]_vars

\* two clients whose requests the server takes in any order
NextShared ==
  \/ \E c \in TwoClients, q \in Questions : ChatEndpoint(c, q)
  \/ \E c \in TwoClients : ResetConversation(c)

SpecShared == Init /\ [][NextShared]_vars

\* one client whose questions refer to the previous query
NextContext ==
  \/ \E c \in Clients, q \in ContextQuestions : ChatEndpoint(c, q)
  \/ \E c \in Clients : ResetConversation(c)

SpecContext == Init /\ [][NextContext]_vars

\* how the download utilities (not part of this source file) end when they are
\* asked for a file: with the file, without one, or by raising
DownloadOutcomes == {"file", "none", "raise"}

\* POST /api/download/csv: the rows stored for download are exported, when there
\* are any and the utilities deliver the file
DownloadCsv ==
  /\ \E o \in DownloadOutcomes :
       turn' = [NoTurn EXCEPT !.op = "download",
                              !.exported = IF last_query_results # None /\ o = "file"
                                           THEN last_query_results ELSE None]
  /\ UNCHANGED <<conversation_memory, last_query_result, last_sql_query,
                 last_question, db_connection, last_query_results, hist>>

\* one client who also downloads
NextDownload ==
  \/ \E c \in Clients, q \in Questions : ChatEndpoint(c, q)
  \/ \E c \in Clients : ResetConversation(c)
  \/ DownloadCsv

SpecDownload == Init /\ [][NextDownload]_vars

\* POST /api/chat has received client c's question: chat_endpoint is entered,
\* and pending holds the runs chat_agent.chat can take from here, one for each
\* way the external calls can return or raise
Accept(c, q) ==
  /\ turn.op # "accepted"
  /\ UserTurns(conversation_memory) < MaxTurns
  /\ turn' = [NoTurn EXCEPT !.op = "accepted", !.client = Some(c), !.question = Some(q),
                            !.pending = chat(TurnStart, q)]
  /\ UNCHANGED <<conversation_memory, last_query_result, last_sql_query,
                 last_question, db_connection, last_query_results, hist>>

\* chat_agent.chat runs to its end for the accepted question and chat_endpoint
\* returns
Respond ==
  /\ turn.op = "accepted"
  /\ \E m \in turn.pending : Returned(The(turn.client), The(turn.question), m)

\* requests are accepted one at a time: chat_endpoint calls chat without
\* awaiting, so no other request is served until it has returned
NextLive ==
  \/ \E c \in Clients, q \in Questions : Accept(c, q)
  \/ Respond
  \/ \E c \in Clients : turn.op # "accepted" /\ ResetConversation(c)

\* every external call returns or raises, so a turn that has been accepted runs
\* to its end
SpecLive == Init /\ [][NextLive]_vars /\ WF_vars(Respond)

\* the first question of a session
AskFirst(c, q) ==
  /\ conversation_memory = <<>>
  /\ ChatEndpoint(c, q)

\* the second question of a session, when it repeats the first up to letter case
\* and surrounding white space
Reask(c, q) ==
  /\ UserTurns(conversation_memory) = 1
  /\ Strip(Lower(Corrected(q))) = Strip(Lower(conversation_memory[1].content))
  /\ ChatEndpoint(c, q)

\* chat_agent._generate_intelligent_sql(q) called on its own on an agent whose
\* transcript is empty: chat has not appended the question
Resolve(q) ==
  /\ conversation_memory = <<>>
  /\ \E g \in _generate_intelligent_sql(TurnStart, q) :
       turn' = [NoTurn EXCEPT !.op = "resolve", !.question = Some(q),
                              !.sql_gen = g.m.sql_gen, !.sql_from = g.m.sql_from,
                              !.sql_text = g.sql, !.base_query = g.m.base_query]
  /\ UNCHANGED <<conversation_memory, last_query_result, last_sql_query,
                 last_question, db_connection, last_query_results, hist>>

\* chat_agent._clean_sql_query(text) applied to a resolved text on its own
Clean(text) ==
  /\ turn = NoTurn
  /\ turn' = [NoTurn EXCEPT !.op = "clean", !.sql_text = Some(text),
                            !.executed = <<_clean_sql_query(text)>>]
  /\ UNCHANGED <<conversation_memory, last_query_result, last_sql_query,
                 last_question, db_connection, last_query_results, hist>>

\* chat_agent._remove_query_limits(text) applied to a SQL text on its own
RemoveLimits(text) ==
  /\ turn = NoTurn
  /\ turn' = [NoTurn EXCEPT !.op = "expand", !.sql_text = Some(text),
                            !.executed = <<_remove_query_limits(text)>>]
  /\ UNCHANGED <<conversation_memory, last_query_result, last_sql_query,
                 last_question, db_connection, last_query_results, hist>>

\* the previous_context step of chat_agent._generate_intelligent_sql(q) on its
\* own, on an agent whose last_sql_query is sql
Delegate(sql, q) ==
  /\ turn = NoTurn
  /\ turn' = [NoTurn EXCEPT !.op = "context", !.question = Some(q), !.sql_text = Some(sql),
                            !.base_query = previous_context(Some(sql), q)]
  /\ UNCHANGED <<conversation_memory, last_query_result, last_sql_query,
                 last_question, db_connection, last_query_results, hist>>

\* the cleaning step, the limit editor and the previous_context step on their
\* own, and the first turn of a
\* session
NextClean ==
  \/ \E text \in ResolvedTexts : Clean(text)
  \/ \E text \in LimitTexts : RemoveLimits(text)
  \/ \E sql \in OrderTexts, q \in ContextQuestions : Delegate(sql, q)
  \/ \E c \in Clients, q \in Questions : AskFirst(c, q)
  \/ \E c \in Clients : ResetConversation(c)

SpecClean == Init /\ [][NextClean]_vars

\* a session's opening questions, drawn from Phrases
NextAsk ==
  \/ \E c \in Clients, q \in Phrases : AskFirst(c, q)
  \/ \E c \in Clients, q \in Phrases : Reask(c, q)
  \/ \E q \in Phrases \cup Requests : Resolve(q)
  \/ \E c \in Clients : ResetConversation(c)

SpecAsk == Init /\ [][NextAsk]_vars

----------------------------------------------------------------------------
(* Properties *)

NoPreviousFailure ==
  Failure("No previous query to expand. Please ask a specific question first.")
ExecutionFailure ==
  Failure("Query execution failed. Please check the query syntax.")

\* the user entry chat appends for a question
UserEntry(q) == [role |-> "user", content |-> Corrected(q)]

\* C1: for every question, conversation state and outcome of the database and of
\* the generative capability (failure or exception included), chat returns a
\* response whose success flag is TRUE or FALSE, and no exception leaves the turn.
C1_ChatAlwaysReturns ==
  turn.op = "chat" =>
    /\ ~turn.raised
    /\ turn.ret # None
    /\ \A r \in turn.ret : r.success \in BOOLEAN

\* a turn in which an exception left the handler and chat turned it into a response
C1_Witness ==
  turn.op = "chat" /\ turn.ret = Some(Failure("Error processing question"))

\* C2: a question that matches a template and has not been asked earlier in the
\* session gets the template's SQL, and the generative capability is not asked
\* for SQL.
C2_TemplateAnswersFirstAsk ==
  (/\ turn.op = "chat"
   /\ turn.intent = "database"
   /\ turn.sql_from # "none"
   /\ TemplateSql(Corrected(The(turn.question))) # None
   /\ Cardinality({i \in 1..Len(conversation_memory) :
                     conversation_memory[i] = UserEntry(The(turn.question))}) = 1)
  => /\ turn.sql_from = "template"
     /\ turn.sql_gen = 0

\* C3 as claimed: at every turn boundary last_sql_query is set if and only if the
\* most recent database-query turn executed successfully.
C3_SetIffLastQueryOk ==
  (last_sql_query # None) <=> (hist.db_ok = Some(TRUE))

\* C3 as amended: at every turn boundary last_sql_query is set if and only if some
\* database-query turn since the session started or was last reset executed
\* successfully.
C3_SetIffSomeQueryOk ==
  (last_sql_query # None) <=> hist.db_any

\* the last query is still set after a later database-query turn failed
C3_Witness ==
  last_sql_query # None /\ hist.db_ok = Some(FALSE)

\* C4: when a turn has produced its response the database connection opened in
\* it has been closed; no connection is held open across turns.
C4_ConnectionClosedAfterTurn ==
  turn.op = "chat" => db_connection = "closed"

\* C5: a follow-up request made while last_sql_query is unset returns the
\* no-previous-query failure, and the turn opens no connection and executes no
\* query.
C5_FollowUpWithoutPriorQuery ==
  [][(turn'.op = "chat" /\ turn'.intent = "followup" /\ last_sql_query = None)
       => /\ turn'.ret = Some(NoPreviousFailure)
          /\ ~The(turn'.ret).success
          /\ turn'.connects = 0
          /\ turn'.executed = <<>>
          /\ db_connection' = db_connection]_vars

C5_Witness ==
  /\ turn.op = "chat"
  /\ turn.intent = "followup"
  /\ turn.ret = Some(NoPreviousFailure)
  /\ turn.connects = 0

\* C6 as claimed: a database-query turn that ends in execution failure leaves
\* every field of the conversation state (last SQL, last result, last question,
\* transcript) as it was before the turn.
C6_ExecFailureLeavesStateUnmodified ==
  [][(turn'.op = "chat" /\ turn'.intent = "database"
        /\ turn'.ret = Some(ExecutionFailure))
       => /\ last_sql_query' = last_sql_query
          /\ last_query_result' = last_query_result
          /\ last_question' = last_question
          /\ conversation_memory' = conversation_memory]_vars

\* C6 as amended: a database-query turn that ends in execution failure leaves the
\* last SQL and the last result as they were before the turn; the last question
\* is the turn's question and the transcript has gained the turn's user entry.
C6_ExecFailureKeepsLastQuery ==
  [][(turn'.op = "chat" /\ turn'.intent = "database"
        /\ turn'.ret = Some(ExecutionFailure))
       => /\ last_sql_query' = last_sql_query
          /\ last_query_result' = last_query_result
          /\ last_question' = turn'.question
          /\ conversation_memory' =
               Append(conversation_memory, UserEntry(The(turn'.question)))]_vars

\* an execution failure in a session that holds an earlier query
C6_Witness ==
  /\ turn.op = "chat"
  /\ turn.intent = "database"
  /\ turn.ret = Some(ExecutionFailure)
  /\ last_sql_query # None

\* C7: once a query has executed successfully, whatever database-query turns fail
\* afterwards, last_sql_query and the stored result are still those of the last
\* successful execution when a follow-up arrives, and the follow-up expands that
\* SQL.
C7_FollowUpExpandsLastSuccessfulQuery ==
  [][(turn'.op = "chat" /\ turn'.intent = "followup" /\ hist.ok_sql # None)
       => /\ last_sql_query = hist.ok_sql
          /\ last_query_result # None
          /\ The(last_query_result).rows = The(hist.ok_rows)
          /\ turn'.ret # Some(NoPreviousFailure)
          /\ turn'.executed \in {<<>>, <<_remove_query_limits(The(hist.ok_sql))>>}]_vars

\* a follow-up that ran its query although the latest database-query turn failed
C7_Witness ==
  /\ turn.op = "chat"
  /\ turn.intent = "followup"
  /\ turn.executed # <<>>
  /\ hist.db_ok = Some(FALSE)

\* C8: the response to a client's follow-up depends on that client's own earlier
\* turns alone: it fails with no-previous-query exactly when the client has had
\* no query of its own executed since its own last reset, and the SQL it expands
\* comes from the client's own turn.
C8_SessionsIsolated ==
  [][(turn'.op = "chat" /\ turn'.intent = "followup")
       => /\ (turn'.ret = Some(NoPreviousFailure)) <=> (The(turn'.client) \notin hist.own)
          /\ turn'.executed # <<>> => hist.owner = turn'.client]_vars

\* C9: a resolved query that returns no rows ends the turn with success, a row
\* count of 0 and a non-empty advisory insight, not an error, and the query is
\* recorded as last_sql_query.
C9_EmptyResultIsSuccess ==
  (turn.op = "chat" /\ turn.intent = "database" /\ turn.result = Some(0))
  => /\ turn.ret # None
     /\ The(turn.ret).success
     /\ The(turn.ret).error = None
     /\ The(turn.ret).row_count = Some(0)
     /\ The(turn.ret).insights # None
     /\ The(The(turn.ret).insights).msg # ""
     /\ The(turn.ret).sql_query = Some(turn.executed[1])
     /\ last_sql_query = Some(turn.executed[1])

C9_Witness ==
  /\ turn.op = "chat"
  /\ turn.intent = "database"
  /\ turn.result = Some(0)
  /\ turn.ret # None
  /\ The(turn.ret).row_count = Some(0)

\* a row-limiting clause: TOP in any letter case, white space, a number
HasRowLimit(s) ==
  \E i \in 1..Len(s) :
     /\ i + 2 <= Len(s)
     /\ Lower(SubSeq(s, i, i + 2)) = <<"t","o","p">>
     /\ SpaceRun(s, i + 3) > 0
     /\ DigitRun(s, i + 3 + SpaceRun(s, i + 3)) > 0

\* C10: the query a follow-up sends to the executor contains no row-limiting
\* clause.
C10_ExpandedQueryHasNoLimit ==
  (turn.op = "chat" /\ turn.intent = "followup" /\ turn.executed # <<>>)
  => ~HasRowLimit(turn.executed[1])

\* C11: the spelling normalizer is idempotent: normalizing the normalized text of
\* a question (the content chat stored for it in the transcript) gives that text
\* again, also for questions that hold correctly spelled words.
C11_SpellingIdempotent ==
  \A i \in 1..Len(conversation_memory) :
     conversation_memory[i].role = "user"
       => _correct_spelling(conversation_memory[i].content) = conversation_memory[i].content

\* the corrected text of the question of the most recent chat turn, as the
\* classifier sees it
TurnText == Strip(Lower(Corrected(The(turn.question))))

HasGreeting(t) == \E p \in 1..Len(casual_words) : SearchWord(t, casual_words[p])

\* C12: a question of at most 5 tokens that holds a greeting word, no
\* data-request keyword and no follow-up phrase is handled as casual; a question
\* that holds a greeting word together with a data-request keyword
\* (show/list/get/find/properties/noi/data/assets) is handled as a database
\* query.
C12_GreetingClassification ==
  (turn.op = "chat" /\ HasGreeting(TurnText))
  => /\ (/\ TokenCount(TurnText) <= 5
         /\ ~ContainsAny(TurnText, casual_data_keywords)
         /\ ~ContainsAny(TurnText, followup_keywords))
        => turn.intent = "casual"
     /\ ContainsAny(TurnText, casual_data_keywords) => turn.intent = "database"

\* C13: every question is handled by exactly one of the four handlers, the first
\* in the order follow-up, casual, database query, general whose predicate the
\* corrected question satisfies: a question with a follow-up phrase is handled as
\* a follow-up whatever else it holds, and the general handler is chosen only
\* when none of the three predicates holds.
C13_FirstMatchDispatch ==
  [][turn'.op = "chat" =>
       LET q == Corrected(The(turn'.question))
           has_last_sql == last_sql_query # None /\ The(last_sql_query) # <<>>
           kinds == <<"followup", "casual", "database", "general">>
           matches == <<Predicates(q).followup, Predicates(q).casual,
                        Predicates(q).needs[has_last_sql], TRUE>>
       IN  \E k \in 1..4 :
              /\ matches[k]
              /\ \A j \in 1..(k - 1) : ~matches[j]
              /\ turn'.handler = <<kinds[k]>>]_vars

\* a question that holds a follow-up phrase and a greeting, and one that holds a
\* follow-up phrase and data keywords, have been handled as follow-ups
C13_Witness ==
  /\ turn.op = "chat"
  /\ turn.question \in {Some(QHeyExpand), Some(QShowAllProperties)}
  /\ turn.handler = <<"followup">>
  /\ turn.ret = Some(NoPreviousFailure)

\* the content of the last user entry of a transcript, None when it has none
LastUserContent(mem) ==
  LET at == {i \in 1..Len(mem) : mem[i].role = "user"}
  IN  IF at = {} THEN None
      ELSE Some(mem[CHOOSE i \in at : \A j \in at : j <= i].content)

\* C14: when the question of a database-query turn equals, up to letter case and
\* surrounding white space, the user question of the turn before it, the SQL
\* resolution uses no template and asks the generative capability for the SQL,
\* also when a template matches the question.
C14_RepeatIsDelegated ==
  [][(/\ turn'.op = "chat"
      /\ turn'.handler = <<"database">>
      /\ turn'.sql_from # "none"
      /\ LastUserContent(conversation_memory) # None
      /\ Strip(Lower(The(LastUserContent(conversation_memory))))
           = Strip(Lower(Corrected(The(turn'.question)))))
       => /\ turn'.sql_from = "generated"
          /\ turn'.sql_gen = 1]_vars

\* the data question asked again in other letter case and with surrounding white
\* space: a template matches it and the generative capability was asked
C14_Witness ==
  /\ turn.op = "chat"
  /\ turn.question = Some(QTopAssetsCaps)
  /\ Len(conversation_memory) >= 2
  /\ conversation_memory[1] = UserEntry(QTopAssets)
  /\ TemplateSql(Corrected(QTopAssetsCaps)) # None
  /\ turn.sql_from = "generated"
  /\ turn.sql_gen = 1

ResolutionFailure ==
  Failure("Could not generate a valid SQL query for this question. Try being more specific.")

\* the text holds the refusal phrase, in any letter case
IsRefusal(text) == Contains(Lower(text), <<"n","o","t"," ","p","o","s","s","i","b","l","e">>)

\* C15: when the generative capability, asked for SQL, returns a text that holds
\* the refusal phrase "not possible" in any letter case, or returns nothing (an
\* empty text, or no text because the call failed), the turn returns a failure,
\* sends no query to the executor and leaves last_sql_query and the stored result
\* as they were.
C15_RefusalIsResolutionFailure ==
  [][(/\ turn'.op = "chat"
      /\ turn'.handler = <<"database">>
      /\ turn'.sql_gen = 1
      /\ \/ turn'.sql_text = None
         \/ The(turn'.sql_text) = <<>>
         \/ IsRefusal(The(turn'.sql_text)))
       => /\ turn'.ret # None
          /\ ~The(turn'.ret).success
          /\ turn'.executed = <<>>
          /\ last_sql_query' = last_sql_query
          /\ last_query_result' = last_query_result]_vars

\* a refusal in a session that holds an earlier query
C15_Witness ==
  /\ turn.op = "chat"
  /\ turn.sql_text = Some(GenRefusal)
  /\ turn.ret = Some(ResolutionFailure)
  /\ turn.executed = <<>>
  /\ last_sql_query # None

CodeFence == <<Backtick, Backtick, Backtick>>

\* C16: the text that the cleaning step makes of a text returned by the SQL
\* resolution holds no code-fence marker and no statement terminator (of a text
\* without fences and quotes it is the text before the first terminator, without
\* surrounding white space), and this cleaned text is the query sent to the
\* executor and, when the execution returns a frame, the query stored as
\* last_sql_query and reported in a successful response.
C16_CleanedQueryIsExecuted ==
  (/\ turn.op \in {"chat", "clean"}
   /\ turn.op = "chat" => turn.handler = <<"database">>
   /\ turn.executed # <<>>)
  => LET resolved == The(turn.sql_text)
         cleaned == turn.executed[1]
     IN  /\ turn.sql_text # None
         /\ Len(turn.executed) = 1
         /\ ~Contains(cleaned, CodeFence)
         /\ ~Contains(cleaned, <<";">>)
         /\ ~ContainsAny(resolved, <<<<Backtick>>, <<"\"">>, <<"'">>>>)
              => cleaned = Strip(BeforeFirst(resolved, ";"))
         /\ (turn.op = "chat" /\ turn.result # None) => last_sql_query = Some(cleaned)
         /\ (turn.ret # None /\ The(turn.ret).success)
              => The(turn.ret).sql_query = Some(cleaned)

\* the fenced completion of two statements has been executed as its first
\* statement alone and stored
C16_Witness ==
  /\ turn.op = "chat"
  /\ turn.sql_text = Some(GenFenced)
  /\ Contains(GenFenced, CodeFence)
  /\ Contains(GenFenced, <<";">>)
  /\ turn.executed = <<BeforeFirst(From(GenFenced, 7), ";")>>
  /\ last_sql_query = Some(turn.executed[1])

FallbackInsight ==
  "Query executed successfully and returned {rows} results with columns: {columns}"

\* the transcript entry the database handler appends for a result of rows rows
AssistantEntry(rows, q) ==
  [role |-> "assistant",
   content |-> <<"Q","u","e","r","y"," ","r","e","t","u","r","n","e","d"," ">> \o FormatInt(rows)
               \o <<" ","r","e","s","u","l","t","s"," ","f","r","o","m"," ">> \o Corrected(q)]

IsCompoundRequest(question) ==
  LET q == Lower(question)
  IN  \/ Contains(q, <<"c","o","m","m","e","r","c","i","a","l">>)
           /\ Contains(q, <<"h","o","s","p","i","t","a","l","i","t","y">>)
      \/ Contains(q, <<"a","l","l">>)
           /\ ContainsAny(q, << <<"c","o","m","m","e","r","c","i","a","l">>,
                                <<"h","o","s","p","i","t","a","l","i","t","y">>,
                                <<"m","u","l","t","i","f","a","m","i","l","y">>,
                                <<"r","e","t","a","i","l">> >>)

\* C18: when the SQL resolution runs its template matching (the question is no
\* repeat: the transcript does not hold it), a request that names more than one
\* property type gets the SQL of no template; the generative capability is asked.
C18_CompoundRequestIsDelegated ==
  (/\ turn.op = "resolve"
   /\ conversation_memory = <<>>
   /\ IsCompoundRequest(The(turn.question)))
  => /\ turn.sql_from = "generated"
     /\ turn.sql_gen = 1
     /\ turn.sql_text \notin {Some(SqlMultifamily), Some(SqlHospitality)}

\* C19: the transcript is bounded: its length never exceeds a fixed bound, here
\* the number of entries the agent reads back from it (RecentWindow), however
\* many turns are taken without a reset.
C19_TranscriptBounded ==
  Len(conversation_memory) <= RecentWindow

\* C20: every database-query turn whose query is executed successfully, a result
\* of no rows included, stores the query and the result and appends to the
\* transcript, after the turn's user entry, exactly one assistant entry that
\* states the row count.
C20_SuccessAppendsAssistantEntry ==
  [][(/\ turn'.op = "chat"
      /\ turn'.handler = <<"database">>
      /\ turn'.result # None)
       => /\ last_sql_query' = Some(turn'.executed[1])
          /\ last_query_result' # None
          /\ The(last_query_result').rows = The(turn'.result)
          /\ conversation_memory' =
               conversation_memory
                 \o <<UserEntry(The(turn'.question)),
                      AssistantEntry(The(turn'.result), The(turn'.question))>>]_vars

\* C21: a reset, from whatever state, clears the last SQL, the last result, the
\* last question and the transcript, and a follow-up request that comes next
\* after a reset fails with the no-previous-query failure and executes nothing,
\* whatever was executed before the reset.
C21_ResetClearsSession ==
  [][/\ turn'.op = "reset"
          => /\ conversation_memory' = <<>>
             /\ last_sql_query' = None
             /\ last_query_result' = None
             /\ last_question' = None
     /\ (turn.op = "reset" /\ turn'.op = "chat" /\ turn'.handler = <<"followup">>)
          => /\ turn'.ret = Some(NoPreviousFailure)
             /\ turn'.connects = 0
             /\ turn'.executed = <<>>]_vars

\* a follow-up refused right after a reset that cleared an executed query
C21_Witness ==
  /\ turn.op = "chat"
  /\ turn.handler = <<"followup">>
  /\ turn.ret = Some(NoPreviousFailure)
  /\ hist.cleared

\* C22: between resets the transcript is append-only: the transcript before a
\* turn is a prefix of the transcript after it, and every turn appends the user
\* entry of its question, also when the transcript already holds that entry.
C22_TranscriptAppendOnly ==
  [][turn'.op = "chat" =>
       /\ Len(conversation_memory') > Len(conversation_memory)
       /\ SubSeq(conversation_memory', 1, Len(conversation_memory)) = conversation_memory
       /\ conversation_memory'[Len(conversation_memory) + 1]
            = UserEntry(The(turn'.question))]_vars

\* the same question asked twice: the transcript holds two user entries for it
C22_Witness ==
  \E i, j \in 1..Len(conversation_memory) :
     /\ i < j
     /\ conversation_memory[i].role = "user"
     /\ conversation_memory[i] = conversation_memory[j]

\* C23 as claimed: the limit editor returns its input unchanged, character for
\* character, whenever the input holds no row-limiting clause.
C23_NoLimitUnchanged ==
  (turn.op = "expand" /\ ~HasRowLimit(The(turn.sql_text)))
  => turn.executed[1] = The(turn.sql_text)

\* C23 as amended: whenever the input holds no row-limiting clause the limit
\* editor returns it with its surrounding white space removed and otherwise
\* unchanged; an input without surrounding white space, as every stored
\* last_sql_query is, is returned character for character.
C23_NoLimitStripped ==
  (turn.op = "expand" /\ ~HasRowLimit(The(turn.sql_text)))
  => /\ turn.executed[1] = Strip(The(turn.sql_text))
     /\ Strip(The(turn.sql_text)) = The(turn.sql_text)
          => turn.executed[1] = The(turn.sql_text)

\* a text without a row-limiting clause and with white space in front has been
\* returned without the white space
C23_Witness ==
  /\ turn.op = "expand"
  /\ turn.sql_text = Some(<<" ", "t", "o", "p">>)
  /\ ~HasRowLimit(The(turn.sql_text))
  /\ turn.executed = <<<<"t", "o", "p">>>>

\* C24: a casual or general turn leaves last_sql_query and the stored result as
\* they were, opens no connection and executes no query; the two fields change
\* only in a turn whose query execution returned a frame, or on reset.
C24_OnlyExecutionChangesLastQuery ==
  [][/\ (turn'.op = "chat" /\ turn'.handler \in {<<"casual">>, <<"general">>})
          => /\ last_sql_query' = last_sql_query
             /\ last_query_result' = last_query_result
             /\ turn'.connects = 0
             /\ turn'.executed = <<>>
             /\ db_connection' = db_connection
     /\ (last_sql_query' # last_sql_query \/ last_query_result' # last_query_result)
          => \/ turn'.op = "reset"
             \/ turn'.op = "chat" /\ turn'.result # None]_vars

\* a casual or general turn in a session that holds a query
C24_Witness ==
  /\ turn.op = "chat"
  /\ turn.handler \in {<<"casual">>, <<"general">>}
  /\ last_sql_query # None
  /\ last_query_result # None

\* the turn in progress has ended with exactly one response and no request is
\* being served
Responded ==
  /\ turn.op = "chat"
  /\ Cardinality(turn.ret) = 1
  /\ ~turn.raised

\* C25: every accepted turn eventually produces exactly one response, on success
\* and on every error path, and the server is then ready for the next request,
\* provided each call of the database and of the generative capability returns
\* or raises.
C25_AcceptedTurnResponds ==
  (turn.op = "accepted") ~> Responded

\* an accepted turn has ended on an error path with a failure response
C25_Witness ==
  /\ Responded
  /\ ~The(turn.ret).success
  /\ turn.connects = 1

\* a follow-up turn that executed its expanded query and returned the rows
FollowupSucceeded(t) ==
  /\ t.op = "chat"
  /\ t.handler = <<"followup">>
  /\ t.executed # <<>>
  /\ t.ret # None
  /\ The(t.ret).success

\* C26: after a successful follow-up turn last_sql_query is the query that was
\* sent to the executor, it contains no row-limiting clause and the stored result
\* is the result of that query; a second consecutive follow-up sends the same SQL
\* text to the executor as the first one did.
C26_FollowupIsIdempotent ==
  /\ [](FollowupSucceeded(turn) =>
          /\ last_sql_query = Some(turn.executed[1])
          /\ ~HasRowLimit(turn.executed[1])
          /\ last_query_result = Some(Frame(turn.executed[1], The(turn.result))))
  /\ [][(FollowupSucceeded(turn) /\ turn'.op = "chat"
          /\ turn'.handler = <<"followup">> /\ turn'.executed # <<>>)
        => turn'.executed = turn.executed]_vars

\* the 0-based places where an ORDER BY starts, in any letter case
OrderByAt(sql) ==
  {i \in 0..(Len(sql) - 8) :
     Lower(SubSeq(sql, i + 1, i + 8)) = <<"o","r","d","e","r"," ","b","y">>}
LastOrderBy(sql) == CHOOSE i \in OrderByAt(sql) : \A j \in OrderByAt(sql) : j <= i

\* the previous query ends in an ordering clause of its own: no subquery is
\* closed after its final ORDER BY
HasTrailingOrderBy(sql) ==
  /\ OrderByAt(sql) # {}
  /\ ~Contains(From(sql, LastOrderBy(sql)), <<")">>)

\* C27: when a request to modify the previous query is delegated while
\* last_sql_query is set and ends in an ordering clause, the base query put in
\* the prompt is the previous query up to its final ORDER BY, so that an ORDER
\* BY inside a subquery before it is kept.
C27_BaseQueryKeepsInnerOrderBy ==
  (turn.op = "context" /\ turn.base_query # None /\ HasTrailingOrderBy(The(turn.sql_text)))
  => The(turn.base_query)
       = Strip(SubSeq(The(turn.sql_text), 1, LastOrderBy(The(turn.sql_text))))

\* the predicates of the templates, in the order the claim gives them: top
\* performing, fund equity, all properties, cities, total debt, multifamily,
\* hospitality, property types, high NOI, acquisition price
TemplatePredicates(question) ==
  LET has(w) == Contains(Lower(question), w)
  IN  << has(<<"t","o","p">>) /\ has(<<"p","e","r","f","o","r","m","i","n","g">>),
       has(<<"e","q","u","i","t","y">>) /\ has(<<"f","u","n","d">>),
       has(<<"a","l","l"," ","p","r","o","p","e","r","t","i","e","s">>) \/ has(<<"s","h","o","w"," ","p","r","o","p","e","r","t","i","e","s">>) \/ has(<<"s","h","o","w"," ","m","e"," ","a","l","l"," ","p","r","o","p","e","r","t","i","e","s">>),
       has(<<"c","i","t","i","e","s">>) \/ has(<<"w","h","a","t"," ","c","i","t","i","e","s">>),
       has(<<"t","o","t","a","l"," ","d","e","b","t">>) \/ has(<<"o","u","t","s","t","a","n","d","i","n","g"," ","d","e","b","t">>),
       has(<<"m","u","l","t","i","f","a","m","i","l","y">>),
       has(<<"h","o","s","p","i","t","a","l","i","t","y">>),
       has(<<"p","r","o","p","e","r","t","y"," ","t","y","p","e","s">>) \/ has(<<"w","h","a","t"," ","p","r","o","p","e","r","t","y"," ","t","y","p","e","s">>),
       (has(<<"n","o","i">>) \/ has(<<"n","e","t"," ","o","p","e","r","a","t","i","n","g"," ","i","n","c","o","m","e">>)) /\ (has(<<"h","i","g","h">>) \/ has(<<"t","o","p">>)),
       has(<<"a","c","q","u","i","s","i","t","i","o","n">>) /\ has(<<"p","r","i","c","e">>) >>
TemplateTexts ==
  << SqlTopPerformingHead, SqlFundEquity, SqlAllProperties, SqlCities, SqlTotalDebt,
     SqlMultifamily, SqlHospitality, SqlPropertyTypes, SqlHighNOI, SqlAcquisitionPrice >>
\* the predicates each request put to the resolution meets
TemplateMatches == {<<q, TemplatePredicates(q)>> : q \in Phrases \cup Requests}
Matches(q) == (CHOOSE p \in TemplateMatches : p[1] = q)[2]
FirstMatch(q) == CHOOSE i \in 1..10 : Matches(q)[i] /\ \A j \in 1..(i - 1) : ~Matches(q)[j]

\* C28: when the resolution is asked a question its transcript does not hold,
\* the templates are tried in the order top performing, fund equity, all
\* properties, cities, total debt, multifamily, hospitality, property types, high
\* NOI, acquisition price; the SQL returned is that of the first template whose
\* predicate the question meets, and a completion is requested only when it
\* meets none.
C28_FirstMatchingTemplateWins ==
  turn.op = "resolve" =>
    LET q == The(turn.question)
    IN  IF \E i \in 1..10 : Matches(q)[i]
        THEN /\ turn.sql_from = "template"
             /\ turn.sql_gen = 0
             /\ turn.sql_text # None
             /\ IF FirstMatch(q) = 1
                THEN StartsWith(The(turn.sql_text), SqlTopPerformingHead)
                ELSE The(turn.sql_text) = TemplateTexts[FirstMatch(q)]
        ELSE /\ turn.sql_from = "generated"
             /\ turn.sql_gen = 1

\* a request with "top", "performing" and "noi" got the top-performing SQL
C28_Witness ==
  /\ turn.op = "resolve"
  /\ turn.question = Some(QTopPerformingNoi)
  /\ Matches(QTopPerformingNoi)[1] /\ Matches(QTopPerformingNoi)[9]
  /\ turn.sql_from = "template"
  /\ StartsWith(The(turn.sql_text), SqlTopPerformingHead)

\* the first run of digits of a text, None when it has no digit
FirstDigits(s) ==
  LET at == {i \in 1..Len(s) : IsDigit(s[i])}
  IN  IF at = {} THEN None
      ELSE LET a == CHOOSE i \in at : \A j \in at : i <= j
               b == CHOOSE j \in a..Len(s) :
                      /\ \A k \in a..j : IsDigit(s[k])
                      /\ (j = Len(s) \/ ~IsDigit(s[j + 1]))
           IN  Some(SubSeq(s, a, b))
\* the number a run of digits reads as
RECURSIVE Numeral(_)
Numeral(ds) ==
  IF ds = <<>> THEN 0
  ELSE 10 * Numeral(SubSeq(ds, 1, Len(ds) - 1))
       + ((CHOOSE i \in 1..10 : Digits[i] = ds[Len(ds)]) - 1)
\* the first run of digits of each request put to the resolution
RequestDigits == {<<q, FirstDigits(q)>> : q \in Phrases \cup Requests}
DigitsOf(q) == (CHOOSE p \in RequestDigits : p[1] = q)[2]

\* C29: the top-performing template puts after TOP the number the first run of
\* digits of the question reads as, wherever in the question it is, and 5 when
\* the question has no digit.
C29_LimitIsFirstNumber ==
  (turn.op = "resolve" /\ Matches(The(turn.question))[1]) =>
    LET q == The(turn.question)
        limit == IF DigitsOf(q) = None THEN 5 ELSE Numeral(The(DigitsOf(q)))
    IN  turn.sql_text = Some(SqlTopPerformingHead \o FormatInt(limit) \o SqlTopPerformingTail)

\* a request for the top 3 of a year named first got the year as its limit
C29_Witness ==
  /\ turn.op = "resolve"
  /\ turn.question = Some(QYearTop)
  /\ turn.sql_text = Some(SqlTopPerformingHead \o <<"2","0","2","3">> \o SqlTopPerformingTail)

\* C30: the handler a question is dispatched to depends on the normalized
\* question alone: whatever the transcript and whether or not last_sql_query is
\* set, it is the handler the question gets in a session without a last query.
C30_IntentDependsOnQuestionOnly ==
  turn.op = "chat" =>
    /\ turn.handler = <<Intent(Corrected(The(turn.question)), None)>>
    /\ turn.intent = Intent(Corrected(The(turn.question)), None)

\* a question with the prior-result word "above" was handled as a database query
\* in a session in which no query had been stored
C30_Witness ==
  /\ turn.op = "chat"
  /\ turn.question = Some(QSortAbove)
  /\ ContainsAny(Lower(QSortAbove), prior_result_words)
  /\ turn.handler = <<"database">>
  /\ hist.ok_sql = None
  /\ last_sql_query = None

\* C31: the question a successful follow-up response quotes as "your previous
\* question" is the question of the database-query turn whose query the
\* follow-up expanded.
C31_FollowupQuotesOriginalQuestion ==
  (FollowupSucceeded(turn) /\ hist.ok_question # None)
  => The(The(turn.ret).insights).question = hist.ok_question

\* C32 as stated: last_sql_query is unset exactly when the stored result is, and
\* the stored result is the result of executing the stored SQL.
C32_StoredResultIsOfStoredQuery ==
  /\ (last_sql_query = None) <=> (last_query_result = None)
  /\ last_query_result # None => The(last_query_result).of = last_sql_query

\* C32: last_sql_query is unset exactly when the stored result is; a stored
\* result with rows is the result of executing the stored SQL, and one without
\* rows is that result or, after a database-query turn, an empty frame without
\* the query's columns.
C32_StoredPairSetTogether ==
  /\ (last_sql_query = None) <=> (last_query_result = None)
  /\ last_query_result # None =>
       IF The(last_query_result).rows > 0
       THEN The(last_query_result) = Frame(The(last_sql_query), The(last_query_result).rows)
       ELSE The(last_query_result) \in {EmptyFrame, Frame(The(last_sql_query), 0)}

\* a database-query turn whose query returned no rows stored the query and an
\* empty frame that is not the query's result
C32_Witness ==
  /\ turn.op = "chat"
  /\ turn.handler = <<"database">>
  /\ turn.result = Some(0)
  /\ last_sql_query = Some(turn.executed[1])
  /\ last_query_result = Some(EmptyFrame)

\* a follow-up turn that found a previous query and then failed to connect, or
\* whose expanded query the executor answered with its failure sentinel
FollowupFailed(t) ==
  /\ t.op = "chat"
  /\ t.handler = <<"followup">>
  /\ t.connects = 1
  /\ \/ t.executed = <<>> /\ t.ret = Some(Failure("Database connection failed"))
     \/ t.executed # <<>> /\ t.ret = Some(Failure("Expanded query execution failed"))

\* C33: a follow-up turn that fails to connect or whose expanded query fails
\* leaves last_sql_query and the stored result as they were, and a follow-up that
\* comes right after a failed expansion sends the same SQL again.
C33_FailedFollowupKeepsLastQuery ==
  /\ [][FollowupFailed(turn')
        => last_sql_query' = last_sql_query /\ last_query_result' = last_query_result]_vars
  /\ [][(FollowupFailed(turn) /\ turn.executed # <<>> /\ turn'.op = "chat"
          /\ turn'.handler = <<"followup">> /\ turn'.executed # <<>>)
        => turn'.executed = turn.executed]_vars

\* the expansion of a limited query failed and the limited query is still stored
C33_Witness ==
  /\ FollowupFailed(turn)
  /\ turn.executed # <<>>
  /\ last_sql_query # None
  /\ HasRowLimit(The(last_sql_query))
  /\ turn.executed[1] = _remove_query_limits(The(last_sql_query))
  /\ turn.executed[1] # The(last_sql_query)

\* C34: every turn, whatever its handler and outcome, adds exactly one user entry
\* to the transcript, holding the spelling-normalized question and placed right
\* after the entries the transcript held; it sets last_question to the question
\* as it was asked; and the entry is there before the question is resolved, so
\* that the SQL resolution finds the question in the transcript and asks the
\* generative capability.
C34_UserEntryFirst ==
  [][turn'.op = "chat" =>
       /\ UserTurns(conversation_memory') = UserTurns(conversation_memory) + 1
       /\ Len(conversation_memory') > Len(conversation_memory)
       /\ conversation_memory'[Len(conversation_memory) + 1]
            = [role |-> "user", content |-> _correct_spelling(The(turn'.question))]
       /\ last_question' = turn'.question
       /\ turn'.sql_from \in {"none", "generated"}]_vars

\* a misspelled question whose turn failed: the transcript holds the text the
\* spelling correction made of it and last_question the text as asked
C34_Witness ==
  /\ turn.op = "chat"
  /\ turn.question = Some(QReveune)
  /\ ~The(turn.ret).success
  /\ last_question = Some(QReveune)
  /\ Len(conversation_memory) = 1
  /\ conversation_memory[1].role = "user"
  /\ conversation_memory[1].content # QReveune
  /\ conversation_memory[1].content = <<"t","o","t","a","l"," ","r","e","v","e","n","u","e","e">>

\* a turn that did not return a successful response
TurnFailed(t) == t.op = "chat" /\ (t.ret = None \/ ~The(t.ret).success)

\* C35: once the rows of a successful database query or follow-up are stored for
\* download, a casual turn, a general turn, a failed turn and a reset leave them
\* stored, and a download exports the rows that are stored.
C35_DownloadKeepsLastQueryRows ==
  /\ [][(/\ last_query_results # None
         /\ The(last_query_results).rows > 0
         /\ \/ turn'.op = "reset"
            \/ TurnFailed(turn')
            \/ turn'.op = "chat" /\ turn'.handler \in {<<"casual">>, <<"general">>})
        => last_query_results' = last_query_results]_vars
  /\ []((turn.op = "download" /\ turn.exported # None) => turn.exported = last_query_results)

====
